---------------------------- MODULE Spec2Model ----------------------------
(***************************************************************************)
(* TiDBConnector (src/src/connector.ts, first definition, lines 15-215):   *)
(* the connection lifecycle (constructor, switchDatabase) and the          *)
(* statement execution contract (query, execute) of the MCP server.        *)
(*                                                                         *)
(* The connector's methods are async functions.  JavaScript runs the code  *)
(* between two awaits without interruption, so one action of this model   *)
(* is one such segment: "the awaited driver call settles (resolves or      *)
(* rejects), the code runs on to its next await and issues that call".     *)
(* Several callers (the tool handlers of the MCP server) may be inside a   *)
(* method at the same time; they interleave at the awaits.                 *)
(*                                                                         *)
(* The driver (mysql2) and the database are the environment.  Every        *)
(* driver call may resolve or reject; a rejected call changes nothing on   *)
(* the server.  A call issued on a pool on which end() was already called  *)
(* can only reject.                                                        *)
(***************************************************************************)
EXTENDS Integers, Sequences, FiniteSets, TLC

(***************************************************************************)
(* Bounds of the model.                                                    *)
(***************************************************************************)
\* callers that may be inside a connector method at the same time
Procs == {"p1", "p2"}
\* longest statement array handed to execute
MaxBatch == 2
\* connections per pool (connectionLimit, scaled down from the source's 10)
PoolSize == 1
\* pool objects created over a run (the constructor's and one per switch)
MaxPools == 3

Undef == "undefined"

(***************************************************************************)
(* Strings of the read-only check are sequences of characters.             *)
(***************************************************************************)
Whitespace == {" ", "\t", "\n"}

LowerOf(ch) ==
  CASE ch = "S" -> "s" [] ch = "E" -> "e" [] ch = "L" -> "l" [] ch = "C" -> "c"
    [] ch = "T" -> "t" [] ch = "H" -> "h" [] ch = "O" -> "o" [] ch = "W" -> "w"
    [] ch = "I" -> "i" [] ch = "D" -> "d" [] ch = "R" -> "r" [] ch = "B" -> "b"
    [] ch = "X" -> "x" [] ch = "P" -> "p" [] ch = "A" -> "a" [] ch = "N" -> "n"
    [] OTHER -> ch

\* String.prototype.toLowerCase
toLowerCase(s) == [i \in 1..Len(s) |-> LowerOf(s[i])]

\* String.prototype.trim: drops the leading and the trailing whitespace
RECURSIVE TrimStart(_)
TrimStart(s) ==
  IF s # <<>> /\ Head(s) \in Whitespace THEN TrimStart(Tail(s)) ELSE s

RECURSIVE TrimEnd(_)
TrimEnd(s) ==
  IF s # <<>> /\ s[Len(s)] \in Whitespace
    THEN TrimEnd(SubSeq(s, 1, Len(s) - 1))
    ELSE s

trim(s) == TrimEnd(TrimStart(s))

\* String.prototype.startsWith
startsWith(s, prefix) ==
  /\ Len(prefix) <= Len(s)
  /\ SubSeq(s, 1, Len(prefix)) = prefix

readOnlyKeywords ==
  { <<"s","e","l","e","c","t">>,
    <<"s","h","o","w">>,
    <<"d","e","s","c","r","i","b","e">>,
    <<"e","x","p","l","a","i","n">>,
    <<"w","i","t","h">> }

\* a faulty read-only check, which does not trim the statement
isReadOnly_NoTrim(sqlStmt) ==
  \E keyword \in readOnlyKeywords : startsWith(toLowerCase(sqlStmt), keyword)

\* query, lines 110-112
isReadOnly(sqlStmt) ==
  LET trimmedSql == toLowerCase(trim(sqlStmt))
  IN  \E keyword \in readOnlyKeywords : startsWith(trimmedSql, keyword)


(***************************************************************************)
(* TiDBConfig and createPool.                                              *)
(***************************************************************************)
\* the config the constructor receives (interface TiDBConfig, lines 4-13);
\* the optional number port is <<n>>, or <<>> when it is absent
InitConfig ==
  [ databaseUrl |-> Undef,
    host        |-> "gateway01.tidbcloud.com",
    port        |-> <<4000>>,
    username    |-> "pfx.root",
    password    |-> "secret",
    database    |-> "test",
    tls         |-> "true",
    tlsCaPath   |-> Undef ]

\* JavaScript truthiness of an optional string
Truthy(v) == v # Undef /\ v # ""

\* createPool's getSslConfig, lines 25-40
getSslConfig(cfg) ==
  IF cfg.tls = "false"
    THEN [ enabled |-> FALSE, minVersion |-> Undef, ca |-> Undef ]
    ELSE [ enabled |-> TRUE, minVersion |-> "TLSv1.2",
           ca |-> IF Truthy(cfg.tlsCaPath) THEN cfg.tlsCaPath ELSE Undef ]

\* createPool, lines 24-76: the options the pool is built with
createPool(cfg) ==
  IF Truthy(cfg.databaseUrl)
    THEN [ uri |-> cfg.databaseUrl, host |-> Undef, port |-> <<>>,
           user |-> Undef, password |-> Undef, database |-> Undef,
           ssl |-> getSslConfig(cfg) ]
    ELSE [ uri |-> Undef, host |-> cfg.host, port |-> cfg.port,
           user |-> cfg.username,
           password |-> IF cfg.password # Undef /\ cfg.password # ""
                          THEN cfg.password ELSE Undef,
           database |-> cfg.database,
           ssl |-> getSslConfig(cfg) ]

\* a faulty config of the new pool, which takes the default port
newConfig_DefaultPort(cfg, dbName, username, password) ==
  [ cfg EXCEPT
      !.port = <<4000>>,
      !.database = dbName,
      !.username = IF Truthy(username) THEN username ELSE cfg.username,
      !.password = IF password # Undef THEN password ELSE cfg.password ]

\* switchDatabase, lines 88-93: the config of the new pool
newConfig(cfg, dbName, username, password) ==
  [ cfg EXCEPT
      !.database = dbName,
      !.username = IF Truthy(username) THEN username ELSE cfg.username,
      !.password = IF password # Undef THEN password ELSE cfg.password ]

(***************************************************************************)
(* Inputs of the callers.                                                  *)
(***************************************************************************)
\* execute's argument: one statement, or an array of statements
OneStmt(t) == [ isArray |-> FALSE, text |-> t, items |-> <<>> ]
StmtArray(b) == [ isArray |-> TRUE, text |-> Undef, items |-> b ]

\* the batches the first caller of the model hands to execute: one
\* statement, the empty array, and the array INSERT, SELECT, INSERT, ... of
\* the longest length; the second caller, which runs beside the first,
\* hands over one statement
SomeBatches(p) ==
  IF p = "p1"
    THEN { OneStmt("INSERT"), StmtArray(<<>>),
           StmtArray([i \in 1..MaxBatch |->
                        IF i % 2 = 1 THEN "INSERT" ELSE "SELECT"]) }
    ELSE { OneStmt("INSERT") }

\* the result the driver reports for a statement that succeeded: <<n>> is
\* the number n, <<>> a field the result does not have (the result of a
\* SELECT is an array of rows, not a ResultSetHeader)
ResultHeader(stmt) ==
  IF stmt = "INSERT"
    THEN [ affectedRows |-> <<1>>, insertId |-> <<7>> ]
    ELSE [ affectedRows |-> <<>>,  insertId |-> <<>> ]

\* statement texts handed to query
QueryTexts ==
  { <<"s","e","l","e","c","t"," ","1">>,
    <<" ","S","e","L","e","C","t"," ","1","\n">>,
    <<"\n","\t","S","H","O","W"," ","t">>,
    <<"D","E","S","C","R","I","B","E"," ","t">>,
    <<"\t","e","x","p","l","a","i","n">>,
    <<"w","i","t","h","o","u","t">>,
    <<"s","e","l","e","c">>,
    <<"x","s","e","l","e","c","t">>,
    <<"I","N","S","E","R","T">>,
    <<" ","d","r","o","p"," ">>,
    <<" ","\t">>,
    <<>> }

\* arguments handed to switchDatabase: dbName, username, password
SwitchArgs ==
  { <<"a", Undef, Undef>>, <<"b", "u2", "">>, <<"b", "", "pw2">> }
\* those the callers of the connector model hand to switchDatabase
SomeSwitchArgs == { <<"b", "u2", "">> }

\* statement texts the callers of the model hand to query: the second
\* caller hands over a read-only one
SomeQueryTexts(p) ==
  { <<" ","S","e","L","e","C","t"," ","1","\n">> }
  \cup
  IF p = "p1" THEN { <<"I","N","S","E","R","T">> } ELSE {}

(***************************************************************************)
(* State.                                                                  *)
(***************************************************************************)
PoolIds == 1..MaxPools
\* connection j of pool k
Conns == PoolIds \X (1..PoolSize)
NoConn == <<0, 0>>
\* the effect of the i-th statement of the batch caller p is running, or
\* ran last
Effects == Procs \X (1..MaxBatch)
Own(p) == { e \in Effects : e[1] = p }

VARIABLES
  pool,       \* this.pool: the pool object the connector holds
  config,     \* this.config
  poolState,  \* per pool object: "none" (not created), "open",
              \* "closing" (end() called), "closed" (end() resolved)
  poolOpts,   \* per pool object: the options createPool built it with
  borrowed,   \* connections taken from their pool and not released
  pending,    \* per connection: effects of its open transaction
  committed,  \* effects committed to the database
  pc,         \* per caller: the await it is suspended at
  op,         \* per caller: the method it is in
  arg,        \* per caller: the method's arguments
  pl,         \* per caller: the pool its awaited call was issued on
  conn,       \* per caller: local variable connection
  idx,        \* per caller: position of execute's for loop
  results,    \* per caller: local variable results
  err,        \* per caller: the error the catch block holds
  live,       \* per caller: the awaited call was issued on an open pool
  out,        \* per caller: what the method returned or threw
  log,        \* per caller: the driver calls the method issued so far
  tidbConnector, \* server.ts: "null" or "object", the TiDBConnector
  mainPc,     \* server.ts: main() at its "start", "connected" or at "exit"
  mainConfig, \* server.ts: local variable config of main()
  fullUsername, \* per caller: local variable fullUsername
  users,      \* the user accounts created on the database
  transports, \* server-http.ts: the session table, session id -> transport
  sessionId,  \* per transport object: its property sessionId
  transportState, \* per transport object: "none" (not created), "open",
              \* or "closed" (close() has run on it)
  res         \* server-http.ts: the request answered last and its response

vars == << pool, config, poolState, poolOpts, borrowed, pending, committed,
           pc, op, arg, pl, conn, idx, results, err, live, out, log,
           tidbConnector, mainPc, mainConfig, fullUsername, users,
           transports, sessionId, transportState, res >>

connVars == << borrowed, pending, committed >>
poolVars == << pool, config, poolState, poolOpts >>
serverVars == << tidbConnector, mainPc, mainConfig >>
userVars == << fullUsername, users >>
httpVars == << transports, sessionId, transportState, res >>

\* the options of a pool object that does not exist yet
NoOpts ==
  [ uri |-> Undef, host |-> Undef, port |-> <<>>, user |-> Undef,
    password |-> Undef, database |-> Undef,
    ssl |-> [ enabled |-> FALSE, minVersion |-> Undef, ca |-> Undef ] ]

NoOut == [ kind |-> "none", error |-> Undef, value |-> <<>> ]

\* the arguments of a caller that is in no method
NoArgs == [ none |-> Undef ]

\* the transport objects server-http.ts can create
MaxTransports == 2
TransportIds == 1..MaxTransports

\* randomUUID(): the session id generated for transport object t
Uuid(t) == <<"s1", "s2", "s3", "s4">>[t]
Uuids == { Uuid(t) : t \in TransportIds }

\* no request has been answered yet
NoRes ==
  [ method |-> "none", header |-> Undef, body |-> "none", status |-> 0,
    code |-> 0, thrown |-> Undef, transport |-> 0 ]

\* server-http.ts line 191: const transports = {}; no transport exists
NoHttp ==
  /\ transports = [k \in Uuids |-> 0]
  /\ sessionId = [t \in TransportIds |-> Undef]
  /\ transportState = [t \in TransportIds |-> "none"]
  /\ res = NoRes

Init ==
  /\ pool = 1
  /\ config = InitConfig
  /\ poolState = [k \in PoolIds |-> IF k = 1 THEN "open" ELSE "none"]
  /\ poolOpts = [k \in PoolIds |-> IF k = 1 THEN createPool(InitConfig)
                                             ELSE NoOpts]
  /\ borrowed = {}
  /\ pending = [c \in Conns |-> {}]
  /\ committed = {}
  /\ pc = [p \in Procs |-> "idle"]
  /\ op = [p \in Procs |-> "none"]
  /\ arg = [p \in Procs |-> NoArgs]
  /\ pl = [p \in Procs |-> 0]
  /\ conn = [p \in Procs |-> NoConn]
  /\ idx = [p \in Procs |-> 0]
  /\ results = [p \in Procs |-> <<>>]
  /\ err = [p \in Procs |-> Undef]
  /\ live = [p \in Procs |-> FALSE]
  /\ out = [p \in Procs |-> NoOut]
  /\ log = [p \in Procs |-> <<>>]
  /\ fullUsername = [p \in Procs |-> <<>>]
  /\ users = {}
  /\ NoHttp
  /\ tidbConnector = "object"
  /\ mainPc = "connected"
  /\ mainConfig = InitConfig


(***************************************************************************)
(* The pool and the driver calls.                                          *)
(***************************************************************************)
\* a driver call, as the method's call recorder sees it
Call(name, on, stmt, sql) ==
  [ call |-> name, on |-> on, stmt |-> stmt, sql |-> sql, params |-> Undef ]

PoolOf(k) == <<k, 0>>

\* connections of pool k that pool.getConnection() can hand out
FreeConns(k) == { c \in Conns : c[1] = k /\ c \notin borrowed }

\* the connection pool k hands out next: its first free one
NextFree(k) ==
  CHOOSE c \in FreeConns(k) : \A d \in FreeConns(k) : c[2] <= d[2]

\* what a read on connection c sees: the committed effects and those of
\* the transaction open on c
Visible(c) == committed \cup pending[c]

\* the method returns value
Returned(value) == [ kind |-> "return", error |-> Undef, value |-> value ]
\* the method throws error
Thrown(error) == [ kind |-> "throw", error |-> error, value |-> <<>> ]

\* connection.release(): the connection goes back to its pool; a pool
\* that was ended holds no connections any more
release(c) == borrowed \ {c}

\* a call issued on connection c can resolve only if end() has not been
\* called on the pool of c before the call was issued
IssuedLive(c) == poolState[c[1]] = "open"

\* the transaction of connection c after a call on it settled: the server
\* drops the transaction of a connection that its pool has closed
Txn(c, effects) == IF poolState[c[1]] = "open" THEN effects ELSE {}

(***************************************************************************)
(* execute, lines 124-150.                                                 *)
(***************************************************************************)
\* line 126
statements(sqlStmts) ==
  IF sqlStmts.isArray THEN sqlStmts.items ELSE << sqlStmts.text >>

\* a faulty outcome record, which drops the affected-row count
OutcomeRecord_NoCount(stmt, resultHeader) ==
  [ statement    |-> stmt,
    affectedRows |-> 0,
    lastInsertId |-> IF resultHeader.insertId \in {<<>>, <<0>>}
                       THEN <<>> ELSE resultHeader.insertId ]

\* lines 134-139: the outcome record pushed for a statement
\* (x || 0 and x || null: an absent or zero x gives the default; the
\* lastInsertId null is <<>>)
OutcomeRecord(stmt, resultHeader) ==
  [ statement    |-> stmt,
    affectedRows |-> IF resultHeader.affectedRows \in {<<>>, <<0>>}
                       THEN 0 ELSE resultHeader.affectedRows[1],
    lastInsertId |-> IF resultHeader.insertId \in {<<>>, <<0>>}
                       THEN <<>> ELSE resultHeader.insertId ]

\* lines 125-128: the call, up to await this.pool.getConnection()
ExecuteCall(p, sqlStmts) ==
  /\ UNCHANGED << httpVars, serverVars, userVars >>
  /\ pc[p] = "idle"
  /\ pc' = [pc EXCEPT ![p] = "ex_getConnection"]
  /\ op' = [op EXCEPT ![p] = "execute"]
  /\ arg' = [arg EXCEPT ![p] = sqlStmts]
  /\ results' = [results EXCEPT ![p] = <<>>]
  /\ pl' = [pl EXCEPT ![p] = pool]
  /\ log' = [log EXCEPT ![p] = << Call("getConnection", PoolOf(pool), Undef, <<>>) >>]
  /\ UNCHANGED << poolVars, connVars, conn, idx, err, live, out >>

\* line 128 settles; line 129 issues connection.beginTransaction()
ExecuteGotConnection(p) ==
  /\ UNCHANGED << httpVars, serverVars, userVars >>
  /\ pc[p] = "ex_getConnection"
  /\ \/ \* the pool hands out a connection
        /\ poolState[pl[p]] = "open"
        /\ FreeConns(pl[p]) # {}
        /\ LET c == NextFree(pl[p])
           IN /\ borrowed' = borrowed \cup {c}
              /\ conn' = [conn EXCEPT ![p] = c]
              /\ log' = [log EXCEPT ![p] = Append(@, Call("beginTransaction", c, Undef, <<>>))]
        /\ pc' = [pc EXCEPT ![p] = "ex_begin"]
        /\ live' = [live EXCEPT ![p] = TRUE]
        /\ UNCHANGED << out, pending, committed >>
     \/ \* getConnection rejects: the pool is closed, or no connection
        \* could be established
        /\ poolState[pl[p]] # "open" \/ FreeConns(pl[p]) # {}
        /\ pc' = [pc EXCEPT ![p] = "done"]
        /\ out' = [out EXCEPT ![p] = Thrown("getConnection")]
        /\ UNCHANGED << connVars, conn, log, live >>
  /\ UNCHANGED << poolVars, op, arg, pl, idx, results, err >>

\* a faulty loop, which visits the statements last to first
forOf_Reversed(stmts, i) == stmts[Len(stmts) + 1 - i]

\* line 132: the statement the for loop visits in its i-th round
forOf(stmts, i) == stmts[i]

\* a faulty catch block, which throws the error again without a rollback
catchBlock_NoRollback(p, error) ==
  /\ pc' = [pc EXCEPT ![p] = "done"]
  /\ err' = [err EXCEPT ![p] = error]
  /\ out' = [out EXCEPT ![p] = Thrown(error)]
  /\ borrowed' = release(conn[p])
  /\ log' = [log EXCEPT ![p] = Append(@, Call("release", conn[p], Undef, <<>>))]
  /\ UNCHANGED << live, pending >>

\* lines 142-143: the catch block takes the error and awaits
\* connection.rollback()
catchBlock(p, error) ==
  /\ pc' = [pc EXCEPT ![p] = "ex_rollback"]
  /\ err' = [err EXCEPT ![p] = error]
  /\ log' = [log EXCEPT ![p] = Append(@, Call("rollback", conn[p], Undef, <<>>))]
  /\ live' = [live EXCEPT ![p] = IssuedLive(conn[p])]
  /\ pending' = [pending EXCEPT ![conn[p]] = Txn(conn[p], @)]
  /\ UNCHANGED << borrowed, out >>

\* line 129 settles; the try block starts: the first statement (line 133)
\* or, for an empty array, the commit (line 141) is issued
ExecuteBegun(p) ==
  /\ UNCHANGED << httpVars, serverVars, userVars >>
  /\ pc[p] = "ex_begin"
  /\ \/ /\ live[p]
        /\ IF statements(arg[p]) = <<>>
             THEN /\ pc' = [pc EXCEPT ![p] = "ex_commit"]
                  /\ log' = [log EXCEPT ![p] = Append(@, Call("commit", conn[p], Undef, <<>>))]
                  /\ idx' = [idx EXCEPT ![p] = 0]
             ELSE /\ pc' = [pc EXCEPT ![p] = "ex_stmt"]
                  /\ log' = [log EXCEPT ![p] =
                       Append(@, Call("execute", conn[p], forOf(statements(arg[p]), 1), <<>>))]
                  /\ idx' = [idx EXCEPT ![p] = 1]
        /\ live' = [live EXCEPT ![p] = IssuedLive(conn[p])]
        /\ pending' = [pending EXCEPT ![conn[p]] = Txn(conn[p], @)]
        /\ UNCHANGED << out >>
     \/ \* beginTransaction rejects: the error leaves execute from outside
        \* the try block, so neither catch nor finally runs
        /\ pc' = [pc EXCEPT ![p] = "done"]
        /\ out' = [out EXCEPT ![p] = Thrown("beginTransaction")]
        /\ pending' = [pending EXCEPT ![conn[p]] = Txn(conn[p], @)]
        /\ UNCHANGED << log, idx, live >>
  /\ UNCHANGED << poolVars, borrowed, committed, op, arg, pl, conn, results, err >>

\* line 133 settles for statement idx; lines 134-139 push its record and
\* the loop issues the next statement or, after the last, the commit
\* (line 141); a rejection enters the catch block, which issues the
\* rollback (line 143)
ExecuteStmtDone(p) ==
  /\ UNCHANGED << httpVars, serverVars, userVars >>
  /\ pc[p] = "ex_stmt"
  /\ LET stmts == statements(arg[p])
         stmt == forOf(stmts, idx[p])
     IN \/ /\ live[p]
           /\ pending' = [pending EXCEPT ![conn[p]] = Txn(conn[p], @ \cup { <<p, idx[p]>> })]
           /\ results' = [results EXCEPT ![p] =
                Append(@, OutcomeRecord(stmt, ResultHeader(stmt)))]
           /\ IF idx[p] < Len(stmts)
                THEN /\ idx' = [idx EXCEPT ![p] = @ + 1]
                     /\ log' = [log EXCEPT ![p] =
                          Append(@, Call("execute", conn[p], forOf(stmts, idx[p] + 1), <<>>))]
                     /\ UNCHANGED pc
                ELSE /\ pc' = [pc EXCEPT ![p] = "ex_commit"]
                     /\ log' = [log EXCEPT ![p] = Append(@, Call("commit", conn[p], Undef, <<>>))]
                     /\ UNCHANGED idx
           /\ live' = [live EXCEPT ![p] = IssuedLive(conn[p])]
           /\ UNCHANGED << err, borrowed, out >>
        \/ /\ catchBlock(p, "statement")
           /\ UNCHANGED << results, idx >>
  /\ UNCHANGED << poolVars, committed, op, arg, pl, conn >>

\* line 141 settles: on success finally releases the connection (line 146)
\* and the results are returned (line 149); a rejection enters the catch
\* block
ExecuteCommitDone(p) ==
  /\ UNCHANGED << httpVars, serverVars, userVars >>
  /\ pc[p] = "ex_commit"
  /\ \/ /\ live[p]
        /\ committed' = committed \cup pending[conn[p]]
        /\ pending' = [pending EXCEPT ![conn[p]] = {}]
        /\ borrowed' = release(conn[p])
        /\ log' = [log EXCEPT ![p] = Append(@, Call("release", conn[p], Undef, <<>>))]
        /\ pc' = [pc EXCEPT ![p] = "done"]
        /\ out' = [out EXCEPT ![p] = Returned(results[p])]
        /\ UNCHANGED << err, live >>
     \/ /\ catchBlock(p, "commit")
        /\ UNCHANGED committed
  /\ UNCHANGED << poolVars, op, arg, pl, conn, idx, results >>

\* line 143 settles: the caught error is thrown again (line 144), unless
\* the rollback itself rejected, whose error then leaves the catch block;
\* finally releases the connection (line 146)
ExecuteRollbackDone(p) ==
  /\ UNCHANGED << httpVars, serverVars, userVars >>
  /\ pc[p] = "ex_rollback"
  /\ \/ /\ live[p]
        /\ pending' = [pending EXCEPT ![conn[p]] = {}]
        /\ out' = [out EXCEPT ![p] = Thrown(err[p])]
     \/ /\ out' = [out EXCEPT ![p] = Thrown("rollback")]
        /\ pending' = [pending EXCEPT ![conn[p]] = Txn(conn[p], @)]
  /\ borrowed' = release(conn[p])
  /\ log' = [log EXCEPT ![p] = Append(@, Call("release", conn[p], Undef, <<>>))]
  /\ pc' = [pc EXCEPT ![p] = "done"]
  /\ UNCHANGED << poolVars, committed, op, arg, pl, conn, idx, results, err, live >>


(***************************************************************************)
(* query, lines 108-122.                                                   *)
(***************************************************************************)
\* the optional params argument of query
QueryParams == {Undef, "params"}

\* lines 110-120: the read-only check, then await this.pool.execute(...)
QueryCall(p, sqlStmt, params) ==
  /\ UNCHANGED << httpVars, serverVars, userVars >>
  /\ pc[p] = "idle"
  /\ op' = [op EXCEPT ![p] = "query"]
  /\ arg' = [arg EXCEPT ![p] = [ sqlStmt |-> sqlStmt, params |-> params ]]
  /\ IF ~isReadOnly(sqlStmt)
       THEN /\ pc' = [pc EXCEPT ![p] = "done"]
            /\ out' = [out EXCEPT ![p] = Thrown("readOnly")]
            /\ log' = [log EXCEPT ![p] = <<>>]
            /\ UNCHANGED pl
       ELSE /\ pc' = [pc EXCEPT ![p] = "q_execute"]
            /\ pl' = [pl EXCEPT ![p] = pool]
            /\ log' = [log EXCEPT ![p] =
                 << [ Call("pool.execute", PoolOf(pool), Undef, sqlStmt)
                        EXCEPT !.params = params ] >>]
            /\ UNCHANGED out
  /\ UNCHANGED << poolVars, connVars, conn, idx, results, err, live >>

\* lines 118-121: pool.execute settles; it runs the statement on a
\* connection of the pool and the rows are returned
QueryDone(p) ==
  /\ UNCHANGED << httpVars, serverVars, userVars >>
  /\ pc[p] = "q_execute"
  /\ \/ /\ poolState[pl[p]] = "open"
        /\ FreeConns(pl[p]) # {}
        /\ out' = [out EXCEPT ![p] = Returned(Visible(NextFree(pl[p])))]
     \/ /\ poolState[pl[p]] # "open" \/ FreeConns(pl[p]) # {}
        /\ out' = [out EXCEPT ![p] = Thrown("pool.execute")]
  /\ pc' = [pc EXCEPT ![p] = "done"]
  /\ UNCHANGED << poolVars, connVars, op, arg, pl, conn, idx, results, err, live, log >>

(***************************************************************************)
(* switchDatabase, lines 83-101, and close, lines 212-214.                 *)
(***************************************************************************)
\* pool objects created so far
Created == { k \in PoolIds : poolState[k] # "none" }

\* connections on which a caller awaits a call
InFlight ==
  { conn[q] : q \in { r \in Procs :
      pc[r] \in {"ex_begin", "ex_stmt", "ex_commit", "ex_rollback", "sw_ping",
                 "us_execute"} } }

\* a faulty end(), which starts to close the pool whatever its state
end_StartsOver(k) ==
  /\ poolState' = [poolState EXCEPT ![k] = "closing"]
  /\ pending' = [c \in Conns |->
       IF c[1] = k /\ c \notin InFlight THEN {} ELSE pending[c]]
  /\ borrowed' = { c \in borrowed : c[1] # k }

\* pool.end() is called on pool k: the pool hands out no connection any
\* more and closes its connections, each after the call in flight on it;
\* the server drops the transaction of a closed connection
end(k) ==
  /\ poolState' = [poolState EXCEPT ![k] = IF @ = "open" THEN "closing" ELSE @]
  /\ pending' = [c \in Conns |->
       IF c[1] = k /\ c \notin InFlight THEN {} ELSE pending[c]]
  /\ borrowed' = { c \in borrowed : c[1] # k }

\* line 85: await this.pool.end()
SwitchCall(p, dbName, username, password) ==
  /\ UNCHANGED << httpVars, serverVars, userVars >>
  /\ pc[p] = "idle"
  /\ Cardinality(Created) + Cardinality({q \in Procs : pc[q] = "sw_end"}) < MaxPools
  /\ end(pool)
  /\ pc' = [pc EXCEPT ![p] = "sw_end"]
  /\ op' = [op EXCEPT ![p] = "switchDatabase"]
  /\ arg' = [arg EXCEPT ![p] =
       [ dbName |-> dbName, username |-> username, password |-> password ]]
  /\ pl' = [pl EXCEPT ![p] = pool]
  /\ log' = [log EXCEPT ![p] = << Call("end", PoolOf(pool), Undef, <<>>) >>]
  /\ UNCHANGED << pool, config, poolOpts, committed,
                  conn, idx, results, err, live, out >>

\* lines 88-98: build the new config, create the pool from it, store both
\* and await getConnection on the new pool; ended tells whether the end()
\* of the old pool has resolved
installPool(p, ended) ==
  LET k == CHOOSE j \in PoolIds \ Created :
             \A i \in PoolIds \ Created : j <= i
      cfg == newConfig(config, arg[p].dbName, arg[p].username, arg[p].password)
  IN /\ poolState' = [poolState EXCEPT
          ![pl[p]] = IF ended THEN "closed" ELSE @,
          ![k] = "open"]
     /\ poolOpts' = [poolOpts EXCEPT ![k] = createPool(cfg)]
     /\ pool' = k
     /\ config' = cfg
     /\ pl' = [pl EXCEPT ![p] = k]
     /\ log' = [log EXCEPT ![p] = @ \o
          << Call("createPool", PoolOf(k), Undef, <<>>),
             Call("getConnection", PoolOf(k), Undef, <<>>) >>]
     /\ pc' = [pc EXCEPT ![p] = "sw_getConnection"]
     /\ UNCHANGED out

\* a faulty handling of a rejected end(), which goes on to the new pool
endRejected_GoesOn(p) == installPool(p, FALSE)

\* line 85 rejects: the error leaves switchDatabase
endRejected(p) ==
  /\ pc' = [pc EXCEPT ![p] = "done"]
  /\ out' = [out EXCEPT ![p] = Thrown("end")]
  /\ UNCHANGED << poolVars, pl, log >>

\* line 85 settles
SwitchEnded(p) ==
  /\ UNCHANGED << httpVars, serverVars, userVars >>
  /\ pc[p] = "sw_end"
  /\ \/ installPool(p, TRUE)
     \/ endRejected(p)
  /\ UNCHANGED << connVars, op, arg, conn, idx, results, err, live >>

\* a faulty handling of a failed probe, which puts the old pool back
probeFailed_Reverts(p, error) ==
  /\ pc' = [pc EXCEPT ![p] = "done"]
  /\ out' = [out EXCEPT ![p] = Thrown(error)]
  /\ pool' = log[p][1].on[1]
  /\ poolState' = [poolState EXCEPT ![log[p][1].on[1]] = "open"]
  /\ UNCHANGED << config, poolOpts >>

\* line 98 or line 99 rejects: the error leaves switchDatabase, which has
\* nothing after it that touches this.pool or this.config
probeFailed(p, error) ==
  /\ pc' = [pc EXCEPT ![p] = "done"]
  /\ out' = [out EXCEPT ![p] = Thrown(error)]
  /\ UNCHANGED poolVars

\* line 98 settles; line 99 issues connection.ping()
SwitchGotConnection(p) ==
  /\ UNCHANGED << httpVars, serverVars, userVars >>
  /\ pc[p] = "sw_getConnection"
  /\ \/ /\ poolState[pl[p]] = "open"
        /\ FreeConns(pl[p]) # {}
        /\ LET c == NextFree(pl[p])
           IN /\ borrowed' = borrowed \cup {c}
              /\ conn' = [conn EXCEPT ![p] = c]
              /\ log' = [log EXCEPT ![p] = Append(@, Call("ping", c, Undef, <<>>))]
        /\ pc' = [pc EXCEPT ![p] = "sw_ping"]
        /\ live' = [live EXCEPT ![p] = TRUE]
        /\ UNCHANGED << out, poolVars >>
     \/ /\ poolState[pl[p]] # "open" \/ FreeConns(pl[p]) # {}
        /\ probeFailed(p, "getConnection")
        /\ UNCHANGED << borrowed, conn, log, live >>
  /\ UNCHANGED << pending, committed, op, arg, pl, idx, results, err >>

\* line 99 settles; line 100 releases the connection
SwitchPinged(p) ==
  /\ UNCHANGED << httpVars, serverVars, userVars >>
  /\ pc[p] = "sw_ping"
  /\ \/ /\ live[p]
        /\ borrowed' = release(conn[p])
        /\ log' = [log EXCEPT ![p] = Append(@, Call("release", conn[p], Undef, <<>>))]
        /\ out' = [out EXCEPT ![p] = Returned(<<>>)]
        /\ pc' = [pc EXCEPT ![p] = "done"]
        /\ UNCHANGED poolVars
     \/ /\ probeFailed(p, "ping")
        /\ UNCHANGED << borrowed, log >>
  /\ pending' = [pending EXCEPT ![conn[p]] = Txn(conn[p], @)]
  /\ UNCHANGED << committed, op, arg, pl, conn, idx, results, err, live >>

\* line 213: await this.pool.end()
CloseCall(p) ==
  /\ UNCHANGED << httpVars, serverVars, userVars >>
  /\ pc[p] = "idle"
  /\ end(pool)
  /\ pc' = [pc EXCEPT ![p] = "cl_end"]
  /\ op' = [op EXCEPT ![p] = "close"]
  /\ pl' = [pl EXCEPT ![p] = pool]
  /\ log' = [log EXCEPT ![p] = << Call("end", PoolOf(pool), Undef, <<>>) >>]
  /\ UNCHANGED << pool, config, poolOpts, committed,
                  arg, conn, idx, results, err, live, out >>

\* line 213 settles
CloseEnded(p) ==
  /\ UNCHANGED << httpVars, serverVars, userVars >>
  /\ pc[p] = "cl_end"
  /\ \/ /\ poolState' = [poolState EXCEPT ![pl[p]] = "closed"]
        /\ out' = [out EXCEPT ![p] = Returned(<<>>)]
     \/ /\ out' = [out EXCEPT ![p] = Thrown("end")]
        /\ UNCHANGED poolState
  /\ pc' = [pc EXCEPT ![p] = "done"]
  /\ UNCHANGED << pool, config, poolOpts, connVars, op, arg, pl, conn, idx,
                  results, err, live, log >>

(***************************************************************************)
(* The caller takes the method's outcome.  The effects of its batch are   *)
(* not followed any further.                                               *)
(***************************************************************************)
Return(p) ==
  /\ UNCHANGED << httpVars, serverVars, users >>
  /\ pc[p] = "done"
  /\ pc' = [pc EXCEPT ![p] = "idle"]
  /\ fullUsername' = [fullUsername EXCEPT ![p] = <<>>]
  /\ op' = [op EXCEPT ![p] = "none"]
  /\ arg' = [arg EXCEPT ![p] = NoArgs]
  /\ pl' = [pl EXCEPT ![p] = 0]
  /\ conn' = [conn EXCEPT ![p] = NoConn]
  /\ idx' = [idx EXCEPT ![p] = 0]
  /\ results' = [results EXCEPT ![p] = <<>>]
  /\ err' = [err EXCEPT ![p] = Undef]
  /\ live' = [live EXCEPT ![p] = FALSE]
  /\ out' = [out EXCEPT ![p] = NoOut]
  /\ log' = [log EXCEPT ![p] = <<>>]
  /\ committed' = committed \ Own(p)
  /\ pending' = [c \in Conns |-> pending[c] \ Own(p)]
  /\ UNCHANGED << poolVars, borrowed >>

Next ==
  \E p \in Procs :
    \/ \E sqlStmts \in SomeBatches(p) : ExecuteCall(p, sqlStmts)
    \/ ExecuteGotConnection(p)
    \/ ExecuteBegun(p)
    \/ ExecuteStmtDone(p)
    \/ ExecuteCommitDone(p)
    \/ ExecuteRollbackDone(p)
    \/ \E sqlStmt \in SomeQueryTexts(p) : QueryCall(p, sqlStmt, Undef)
    \/ QueryDone(p)
    \/ \E a \in SomeSwitchArgs : SwitchCall(p, a[1], a[2], a[3])
    \/ SwitchEnded(p)
    \/ SwitchGotConnection(p)
    \/ SwitchPinged(p)
    \/ CloseCall(p)
    \/ CloseEnded(p)
    \/ Return(p)

Spec == Init /\ [][Next]_vars

\* one caller alone, whose calls follow one another
NextLifecycle ==
  \/ \E sqlStmts \in SomeBatches("p1") : ExecuteCall("p1", sqlStmts)
  \/ ExecuteGotConnection("p1")
  \/ ExecuteBegun("p1")
  \/ ExecuteStmtDone("p1")
  \/ ExecuteCommitDone("p1")
  \/ ExecuteRollbackDone("p1")
  \/ \E sqlStmt \in SomeQueryTexts("p1") : QueryCall("p1", sqlStmt, Undef)
  \/ QueryDone("p1")
  \/ \E a \in SomeSwitchArgs : SwitchCall("p1", a[1], a[2], a[3])
  \/ SwitchEnded("p1")
  \/ SwitchGotConnection("p1")
  \/ SwitchPinged("p1")
  \/ CloseCall("p1")
  \/ CloseEnded("p1")
  \/ Return("p1")

SpecLifecycle == Init /\ [][NextLifecycle]_vars

\* a call that caller p awaits on a connection or on end() settles
Settle(p) ==
  \/ ExecuteBegun(p)
  \/ ExecuteStmtDone(p)
  \/ ExecuteCommitDone(p)
  \/ ExecuteRollbackDone(p)
  \/ SwitchEnded(p)
  \/ SwitchPinged(p)
  \/ CloseEnded(p)

\* the pool serves caller p, who waits for a connection of it
Acquire(p) ==
  \/ ExecuteGotConnection(p)
  \/ QueryDone(p)
  \/ SwitchGotConnection(p)

\* the driver settles every call it was handed, and the pool serves every
\* waiting caller for whom a connection is free again and again; callers
\* need not call
FairSpec ==
  Spec /\ \A p \in Procs : WF_vars(Settle(p)) /\ SF_vars(Acquire(p))

\* query alone, over all the statement texts and both forms of its call
NextQuery ==
  \E p \in Procs :
    \/ \E sqlStmt \in QueryTexts : \E params \in QueryParams :
         QueryCall(p, sqlStmt, params)
    \/ QueryDone(p)
    \/ Return(p)

SpecQuery == Init /\ [][NextQuery]_vars

(***************************************************************************)
(* showDatabases, lines 78-81, and showTables, lines 103-106.              *)
(***************************************************************************)
\* line 79 or line 104 rejects: the error leaves the method
showRejected(p) ==
  /\ pc' = [pc EXCEPT ![p] = "done"]
  /\ out' = [out EXCEPT ![p] = Thrown("pool.execute")]
  /\ UNCHANGED log

\* the call of showDatabases or showTables, up to await this.pool.execute
showCall(p, method, sql) ==
  /\ pc[p] = "idle"
  /\ pc' = [pc EXCEPT ![p] = "sh_execute"]
  /\ op' = [op EXCEPT ![p] = method]
  /\ pl' = [pl EXCEPT ![p] = pool]
  /\ log' = [log EXCEPT ![p] = << Call("pool.execute", PoolOf(pool), sql, <<>>) >>]
  /\ UNCHANGED << httpVars, serverVars, userVars, poolVars, connVars, arg, conn, idx,
                  results, err, live, out >>

\* pool.execute settles: it runs the statement on a connection of the
\* pool and the rows are returned
showDone(p, method) ==
  /\ pc[p] = "sh_execute"
  /\ op[p] = method
  /\ \/ /\ poolState[pl[p]] = "open"
        /\ FreeConns(pl[p]) # {}
        /\ out' = [out EXCEPT ![p] = Returned(Visible(NextFree(pl[p])))]
        /\ pc' = [pc EXCEPT ![p] = "done"]
        /\ UNCHANGED log
     \/ /\ poolState[pl[p]] # "open" \/ FreeConns(pl[p]) # {}
        /\ showRejected(p)
  /\ UNCHANGED << httpVars, serverVars, userVars, poolVars, connVars, op, arg, pl, conn,
                  idx, results, err, live >>

\* line 79
ShowDatabasesCall(p) == showCall(p, "showDatabases", "SHOW DATABASES")
\* lines 79-80
ShowDatabasesDone(p) == showDone(p, "showDatabases")
\* line 104
ShowTablesCall(p) == showCall(p, "showTables", "SHOW TABLES")
\* lines 104-105
ShowTablesDone(p) == showDone(p, "showTables")

(***************************************************************************)
(* createUser, lines 162-186, and removeUser, lines 188-210.  User names   *)
(* and passwords are sequences of characters.                              *)
(***************************************************************************)
\* the characters of the strings a config holds
Chars(s) ==
  CASE s = "gateway01.tidbcloud.com" ->
         << "g","a","t","e","w","a","y","0","1",".",
            "t","i","d","b","c","l","o","u","d",".","c","o","m" >>
    [] s = "tidbcloud.co.m" ->
         << "t","i","d","b","c","l","o","u","d",".","c","o",".","m" >>
    [] s = "db.local" -> << "d","b",".","l","o","c","a","l" >>
    [] s = "pfx.root" -> << "p","f","x",".","r","o","o","t" >>
    [] s = "u2" -> << "u","2" >>
    [] s = "" -> << >>

\* String.prototype.includes
includes(s, searchString) ==
  \E i \in 0..(Len(s) - Len(searchString)) :
    SubSeq(s, i + 1, i + Len(searchString)) = searchString

\* String.prototype.split(separator)[0], for a separator of one
\* character: the part of s before the first separator, or all of s
RECURSIVE splitFirst(_, _)
splitFirst(s, separator) ==
  IF s = <<>> \/ Head(s) = separator
    THEN <<>>
    ELSE <<Head(s)>> \o splitFirst(Tail(s), separator)

\* get isServerless, lines 152-155
isServerless(cfg) ==
  LET host == IF Truthy(cfg.host) THEN cfg.host ELSE ""
  IN  includes(Chars(host),
               << "t","i","d","b","c","l","o","u","d",".","c","o","m" >>)

\* lines 169 and 195: the name gets the prefix of the current user
prefixed(cfg, username) ==
  isServerless(cfg) /\ ~includes(username, << "." >>)

\* the driver's connection.escape for a string: the string in single
\* quotes, with a backslash before each quote and backslash of it
RECURSIVE escapeChars(_)
escapeChars(s) ==
  IF s = <<>> THEN <<>>
  ELSE (IF Head(s) \in {"'", "\"", "\\"} THEN << "\\", Head(s) >>
                                         ELSE << Head(s) >>)
       \o escapeChars(Tail(s))

escape(value) == << "'" >> \o escapeChars(value) \o << "'" >>

\* lines 182 and 205: the text of the DDL statement
ddl(method, name, args) ==
  IF method = "createUser"
    THEN << "CREATE USER " >> \o escape(name)
         \o << " IDENTIFIED BY " >> \o escape(args.password)
    ELSE << "DROP USER " >> \o escape(name)

\* the user the sessions of pool k are logged in as
sessionUser(k) ==
  IF poolOpts[k].uri # Undef THEN << "u" >> ELSE Chars(poolOpts[k].user)

\* what SELECT CURRENT_USER() returns on pool k: user@host
CURRENT_USER(k) == sessionUser(k) \o << "@", "%" >>

\* lines 177 and 200: await this.pool.getConnection()
userGetConnection(p) ==
  /\ pc' = [pc EXCEPT ![p] = "us_getConnection"]
  /\ pl' = [pl EXCEPT ![p] = pool]
  /\ log' = [log EXCEPT ![p] =
       Append(IF pc[p] = "idle" THEN <<>> ELSE @,
              Call("getConnection", PoolOf(pool), Undef, <<>>))]

\* lines 164-177 and 190-200: the call, up to the first await
userCall(p, method, args) ==
  /\ pc[p] = "idle"
  /\ op' = [op EXCEPT ![p] = method]
  /\ arg' = [arg EXCEPT ![p] = args]
  /\ IF trim(args.username) = <<>>
       THEN /\ pc' = [pc EXCEPT ![p] = "done"]
            /\ out' = [out EXCEPT ![p] = Thrown("Username cannot be empty")]
            /\ log' = [log EXCEPT ![p] = <<>>]
            /\ UNCHANGED << pl, fullUsername >>
       ELSE /\ fullUsername' = [fullUsername EXCEPT ![p] = trim(args.username)]
            /\ IF prefixed(config, args.username)
                 THEN /\ pc' = [pc EXCEPT ![p] = "us_currentUsername"]
                      /\ pl' = [pl EXCEPT ![p] = pool]
                      /\ log' = [log EXCEPT ![p] =
                           << Call("pool.execute", PoolOf(pool),
                                   "SELECT CURRENT_USER()", <<>>) >>]
                 ELSE userGetConnection(p)
            /\ UNCHANGED out
  /\ UNCHANGED << httpVars, serverVars, users, poolVars, connVars, conn, idx, results,
                  err, live >>

\* a faulty handling of a failed lookup, which goes on without a prefix
lookupFailed_GoesOn(p) ==
  /\ userGetConnection(p)
  /\ UNCHANGED out

\* line 158 rejects: the error leaves the method
lookupFailed(p) ==
  /\ pc' = [pc EXCEPT ![p] = "done"]
  /\ out' = [out EXCEPT ![p] = Thrown("currentUsername")]
  /\ UNCHANGED << pl, log >>

\* lines 158-159 settle; lines 171-177 (197-200) build the prefixed name
\* and await getConnection
userLookedUp(p, method) ==
  /\ pc[p] = "us_currentUsername"
  /\ op[p] = method
  /\ \/ /\ poolState[pl[p]] = "open"
        /\ FreeConns(pl[p]) # {}
        /\ LET currentUser == CURRENT_USER(pl[p])
               prefix == splitFirst(currentUser, ".")
           IN fullUsername' = [fullUsername EXCEPT ![p] =
                prefix \o << "." >> \o arg[p].username]
        /\ userGetConnection(p)
        /\ UNCHANGED out
     \/ /\ poolState[pl[p]] # "open" \/ FreeConns(pl[p]) # {}
        /\ lookupFailed(p)
        /\ UNCHANGED fullUsername
  /\ UNCHANGED << httpVars, serverVars, users, poolVars, connVars, op, arg, conn, idx,
                  results, err, live >>

\* getConnection settles; lines 179-182 (202-205) escape the name and
\* await connection.execute of the DDL statement
userGotConnection(p, method) ==
  /\ pc[p] = "us_getConnection"
  /\ op[p] = method
  /\ \/ /\ poolState[pl[p]] = "open"
        /\ FreeConns(pl[p]) # {}
        /\ LET c == NextFree(pl[p])
           IN /\ borrowed' = borrowed \cup {c}
              /\ conn' = [conn EXCEPT ![p] = c]
              /\ log' = [log EXCEPT ![p] =
                   Append(@, Call("execute", c,
                                  IF method = "createUser" THEN "CREATE USER"
                                                           ELSE "DROP USER",
                                  ddl(method, fullUsername[p], arg[p])))]
        /\ pc' = [pc EXCEPT ![p] = "us_execute"]
        /\ live' = [live EXCEPT ![p] = TRUE]
        /\ UNCHANGED out
     \/ /\ poolState[pl[p]] # "open" \/ FreeConns(pl[p]) # {}
        /\ pc' = [pc EXCEPT ![p] = "done"]
        /\ out' = [out EXCEPT ![p] = Thrown("getConnection")]
        /\ UNCHANGED << borrowed, conn, log, live >>
  /\ UNCHANGED << httpVars, serverVars, userVars, poolVars, pending, committed, op, arg,
                  pl, idx, results, err >>

\* a faulty handling of a rejected DDL statement, which issues it again
ddlRejected_Retries(p) ==
  /\ log' = [log EXCEPT ![p] = Append(@, log[p][Len(log[p])])]
  /\ UNCHANGED << pc, out, borrowed >>

\* line 182 or line 205 rejects: finally releases the connection and the
\* error leaves the method
ddlRejected(p) ==
  /\ pc' = [pc EXCEPT ![p] = "done"]
  /\ out' = [out EXCEPT ![p] = Thrown("execute")]
  /\ borrowed' = release(conn[p])
  /\ log' = [log EXCEPT ![p] = Append(@, Call("release", conn[p], Undef, <<>>))]

\* the DDL statement settles; finally releases the connection (lines 184
\* and 207) and createUser returns fullUsername (line 186).  The database
\* creates a user that does not exist and drops one that does, and a DDL
\* statement commits the transaction open on its connection.
userExecuted(p, method) ==
  /\ pc[p] = "us_execute"
  /\ op[p] = method
  /\ \/ /\ live[p]
        /\ IF method = "createUser"
             THEN /\ fullUsername[p] \notin users
                  /\ users' = users \cup { fullUsername[p] }
                  /\ out' = [out EXCEPT ![p] = Returned(fullUsername[p])]
             ELSE /\ fullUsername[p] \in users
                  /\ users' = users \ { fullUsername[p] }
                  /\ out' = [out EXCEPT ![p] = Returned(<<>>)]
        /\ committed' = committed \cup pending[conn[p]]
        /\ pending' = [pending EXCEPT ![conn[p]] = {}]
        /\ borrowed' = release(conn[p])
        /\ log' = [log EXCEPT ![p] = Append(@, Call("release", conn[p], Undef, <<>>))]
        /\ pc' = [pc EXCEPT ![p] = "done"]
     \/ /\ ddlRejected(p)
        /\ pending' = [pending EXCEPT ![conn[p]] = Txn(conn[p], @)]
        /\ UNCHANGED << users, committed >>
  /\ UNCHANGED << httpVars, serverVars, fullUsername, poolVars, op, arg, pl, conn, idx,
                  results, err, live >>

CreateUserCall(p, username, password) ==
  userCall(p, "createUser", [ username |-> username, password |-> password ])
CreateUserLookedUp(p) == userLookedUp(p, "createUser")
CreateUserGotConnection(p) == userGotConnection(p, "createUser")
CreateUserExecuted(p) == userExecuted(p, "createUser")

RemoveUserCall(p, username) ==
  userCall(p, "removeUser", [ username |-> username ])
RemoveUserLookedUp(p) == userLookedUp(p, "removeUser")
RemoveUserGotConnection(p) == userGotConnection(p, "removeUser")
RemoveUserExecuted(p) == userExecuted(p, "removeUser")

\* the names and the password the callers hand to createUser and
\* removeUser
UserNames ==
  { << "b" >>, << "a", ".", "b" >>, << " ", "b", " " >>, << " " >>, << >> }
Passwords == { << "p", "'" >> }

\* the hosts of the configs the connector is constructed with
Hosts == { "gateway01.tidbcloud.com", "tidbcloud.co.m", "db.local", Undef }

\* a connector constructed with a config of one of the hosts
InitUsers ==
  /\ config \in { [InitConfig EXCEPT !.host = h] : h \in Hosts }
  /\ pool = 1
  /\ poolState = [k \in PoolIds |-> IF k = 1 THEN "open" ELSE "none"]
  /\ poolOpts = [k \in PoolIds |-> IF k = 1 THEN createPool(config)
                                             ELSE NoOpts]
  /\ borrowed = {}
  /\ pending = [c \in Conns |-> {}]
  /\ committed = {}
  /\ pc = [p \in Procs |-> "idle"]
  /\ op = [p \in Procs |-> "none"]
  /\ arg = [p \in Procs |-> NoArgs]
  /\ pl = [p \in Procs |-> 0]
  /\ conn = [p \in Procs |-> NoConn]
  /\ idx = [p \in Procs |-> 0]
  /\ results = [p \in Procs |-> <<>>]
  /\ err = [p \in Procs |-> Undef]
  /\ live = [p \in Procs |-> FALSE]
  /\ out = [p \in Procs |-> NoOut]
  /\ log = [p \in Procs |-> <<>>]
  /\ fullUsername = [p \in Procs |-> <<>>]
  /\ users = {}
  /\ NoHttp
  /\ tidbConnector = "object"
  /\ mainPc = "connected"
  /\ mainConfig = config

\* one caller that uses the statement and user methods of the connector,
\* beside a second one that switches the database
NextUsers ==
  \/ \E username \in UserNames : \E password \in Passwords :
       CreateUserCall("p1", username, password)
  \/ CreateUserLookedUp("p1")
  \/ CreateUserGotConnection("p1")
  \/ CreateUserExecuted("p1")
  \/ \E username \in UserNames : RemoveUserCall("p1", username)
  \/ RemoveUserLookedUp("p1")
  \/ RemoveUserGotConnection("p1")
  \/ RemoveUserExecuted("p1")
  \/ ShowDatabasesCall("p1")
  \/ ShowDatabasesDone("p1")
  \/ ShowTablesCall("p1")
  \/ ShowTablesDone("p1")
  \/ \E sqlStmts \in SomeBatches("p1") : ExecuteCall("p1", sqlStmts)
  \/ ExecuteGotConnection("p1")
  \/ ExecuteBegun("p1")
  \/ ExecuteStmtDone("p1")
  \/ ExecuteCommitDone("p1")
  \/ ExecuteRollbackDone("p1")
  \/ \E sqlStmt \in SomeQueryTexts("p1") : QueryCall("p1", sqlStmt, Undef)
  \/ QueryDone("p1")
  \/ \E a \in SomeSwitchArgs : SwitchCall("p2", a[1], a[2], a[3])
  \/ SwitchEnded("p2")
  \/ SwitchGotConnection("p2")
  \/ SwitchPinged("p2")
  \/ \E p \in Procs : Return(p)

SpecUsers == InitUsers /\ [][NextUsers]_vars

(***************************************************************************)
(* createUser, lines 360-371, and removeUser, lines 373-383, of the        *)
(* second definition of TiDBConnector in src/src/connector.ts (lines       *)
(* 229-388).                                                               *)
(***************************************************************************)
\* lines 370 and 382: the text of the DDL statement, the name and the
\* password put between quotes as they are
ddlRaw(method, name, args) ==
  IF method = "createUser"
    THEN << "CREATE USER ", "'" >> \o name \o << "'" >>
         \o << " IDENTIFIED BY ", "'" >> \o args.password \o << "'" >>
    ELSE << "DROP USER ", "'" >> \o name \o << "'" >>

\* lines 370 and 382: await this.pool.execute of the DDL statement
rawIssueDDL(p, method, name, args) ==
  /\ pc' = [pc EXCEPT ![p] = "ru_execute"]
  /\ pl' = [pl EXCEPT ![p] = pool]
  /\ log' = [log EXCEPT ![p] =
       Append(IF pc[p] = "idle" THEN <<>> ELSE @,
              [ Call("pool.execute", PoolOf(pool),
                     IF method = "createUser" THEN "CREATE USER"
                                              ELSE "DROP USER", <<>>)
                  EXCEPT !.sql = ddlRaw(method, name, args) ])]

\* lines 361-370 and 374-382: the call, up to the first await
rawUserCall(p, method, args) ==
  /\ pc[p] = "idle"
  /\ op' = [op EXCEPT ![p] = method]
  /\ arg' = [arg EXCEPT ![p] = args]
  /\ fullUsername' = [fullUsername EXCEPT ![p] = args.username]
  /\ IF prefixed(config, args.username)
       THEN /\ pc' = [pc EXCEPT ![p] = "ru_currentUsername"]
            /\ pl' = [pl EXCEPT ![p] = pool]
            /\ log' = [log EXCEPT ![p] =
                 << Call("pool.execute", PoolOf(pool),
                         "SELECT CURRENT_USER()", <<>>) >>]
       ELSE rawIssueDDL(p, method, args.username, args)
  /\ UNCHANGED << httpVars, serverVars, users, poolVars, connVars, conn, idx, results,
                  err, live, out >>

\* lines 356-357 settle; lines 365-370 (377-382) build the prefixed name
\* and await pool.execute of the DDL statement
rawUserLookedUp(p, method) ==
  /\ pc[p] = "ru_currentUsername"
  /\ op[p] = method
  /\ \/ /\ poolState[pl[p]] = "open"
        /\ FreeConns(pl[p]) # {}
        /\ LET currentUser == CURRENT_USER(pl[p])
               prefix == splitFirst(currentUser, ".")
               name == prefix \o << "." >> \o arg[p].username
           IN /\ fullUsername' = [fullUsername EXCEPT ![p] = name]
              /\ rawIssueDDL(p, method, name, arg[p])
        /\ UNCHANGED out
     \/ /\ poolState[pl[p]] # "open" \/ FreeConns(pl[p]) # {}
        /\ pc' = [pc EXCEPT ![p] = "done"]
        /\ out' = [out EXCEPT ![p] = Thrown("currentUsername")]
        /\ UNCHANGED << pl, log, fullUsername >>
  /\ UNCHANGED << httpVars, serverVars, users, poolVars, connVars, op, arg, conn, idx,
                  results, err, live >>

\* lines 370-371 and 382 settle: pool.execute ran the DDL statement on a
\* connection of the pool
rawUserExecuted(p, method) ==
  /\ pc[p] = "ru_execute"
  /\ op[p] = method
  /\ \/ /\ poolState[pl[p]] = "open"
        /\ FreeConns(pl[p]) # {}
        /\ IF method = "createUser"
             THEN /\ fullUsername[p] \notin users
                  /\ users' = users \cup { fullUsername[p] }
                  /\ out' = [out EXCEPT ![p] = Returned(fullUsername[p])]
             ELSE /\ fullUsername[p] \in users
                  /\ users' = users \ { fullUsername[p] }
                  /\ out' = [out EXCEPT ![p] = Returned(<<>>)]
        /\ committed' = committed \cup pending[NextFree(pl[p])]
        /\ pending' = [pending EXCEPT ![NextFree(pl[p])] = {}]
     \/ /\ out' = [out EXCEPT ![p] = Thrown("pool.execute")]
        /\ UNCHANGED << users, committed, pending >>
  /\ pc' = [pc EXCEPT ![p] = "done"]
  /\ UNCHANGED << httpVars, serverVars, fullUsername, poolVars, borrowed, op, arg, pl,
                  conn, idx, results, err, live, log >>

\* the names handed to createUser and removeUser of the second
\* definition: those above and one that holds a quote
QuotedUserNames == UserNames \cup { << "o", "'", "b" >> }

\* the connector of the second definition, with one caller of createUser
\* and removeUser
NextUsersRaw ==
  \/ \E username \in QuotedUserNames : \E password \in Passwords :
       rawUserCall("p1", "createUser",
                   [ username |-> username, password |-> password ])
  \/ \E username \in QuotedUserNames :
       rawUserCall("p1", "removeUser", [ username |-> username ])
  \/ \E method \in {"createUser", "removeUser"} :
       \/ rawUserLookedUp("p1", method)
       \/ rawUserExecuted("p1", method)
  \/ Return("p1")

SpecUsersRaw == InitUsers /\ [][NextUsersRaw]_vars

(***************************************************************************)
(* The stdio server, src/src/server.ts: main() and the tool handler.       *)
(***************************************************************************)
\* the configs main() may hold when it reaches validateConfig (line 349)
Configs ==
  { [ databaseUrl |-> u, host |-> h, port |-> n, username |-> w,
      password |-> "secret", database |-> "test", tls |-> "true",
      tlsCaPath |-> Undef ] :
      u \in {Undef, "mysql://u:pw@h:4000/urldb"},
      h \in {Undef, "", "gateway01.tidbcloud.com"},
      n \in {<<>>, <<0>>, <<4000>>, <<65536>>, <<-1>>},
      w \in {Undef, "pfx.root"} }

\* this.config of a connector that does not exist
NoConfig ==
  [ databaseUrl |-> Undef, host |-> Undef, port |-> <<>>, username |-> Undef,
    password |-> Undef, database |-> Undef, tls |-> Undef,
    tlsCaPath |-> Undef ]

\* JavaScript truthiness of an optional number: undefined and 0 are falsy
TruthyNumber(n) == n # <<>> /\ n # <<0>>

\* a faulty validateConfig, which does not ask for the username
validateConfig_NoUsername(cfg) ==
  IF ~Truthy(cfg.databaseUrl) /\ ~Truthy(cfg.host)
    THEN "Either DATABASE_URL or HOST must be provided"
  ELSE IF TruthyNumber(cfg.port)
          /\ (cfg.port[1] < 1 \/ cfg.port[1] > 65535)
    THEN "Invalid port number"
  ELSE "ok"

\* validateConfig, lines 319-331: the message of the error it throws, or
\* "ok" when it returns
validateConfig(cfg) ==
  IF ~Truthy(cfg.databaseUrl) /\ ~Truthy(cfg.host)
    THEN "Either DATABASE_URL or HOST must be provided"
  ELSE IF ~Truthy(cfg.databaseUrl) /\ ~Truthy(cfg.username)
    THEN "USERNAME is required when not using DATABASE_URL"
  ELSE IF TruthyNumber(cfg.port)
          /\ (cfg.port[1] < 1 \/ cfg.port[1] > 65535)
    THEN "Invalid port number"
  ELSE "ok"

\* the server process has been loaded: main() has not run yet, there is
\* no connector and no pool
InitServer ==
  /\ tidbConnector = "null"
  /\ mainPc = "start"
  /\ mainConfig \in Configs
  /\ pool = 0
  /\ config = NoConfig
  /\ poolState = [k \in PoolIds |-> "none"]
  /\ poolOpts = [k \in PoolIds |-> NoOpts]
  /\ borrowed = {}
  /\ pending = [c \in Conns |-> {}]
  /\ committed = {}
  /\ pc = [p \in Procs |-> "idle"]
  /\ op = [p \in Procs |-> "none"]
  /\ arg = [p \in Procs |-> NoArgs]
  /\ pl = [p \in Procs |-> 0]
  /\ conn = [p \in Procs |-> NoConn]
  /\ idx = [p \in Procs |-> 0]
  /\ results = [p \in Procs |-> <<>>]
  /\ err = [p \in Procs |-> Undef]
  /\ live = [p \in Procs |-> FALSE]
  /\ out = [p \in Procs |-> NoOut]
  /\ log = [p \in Procs |-> <<>>]
  /\ fullUsername = [p \in Procs |-> <<>>]
  /\ users = {}
  /\ NoHttp

\* main, lines 349-359: validateConfig, then new TiDBConnector(config)
\* (connector.ts lines 19-22), or process.exit(1) from the catch block
Main ==
  /\ mainPc = "start"
  /\ IF validateConfig(mainConfig) = "ok"
       THEN /\ tidbConnector' = "object"
            /\ config' = mainConfig
            /\ pool' = 1
            /\ poolState' = [poolState EXCEPT ![1] = "open"]
            /\ poolOpts' = [poolOpts EXCEPT ![1] = createPool(mainConfig)]
            /\ mainPc' = "connected"
       ELSE /\ mainPc' = "exit"
            /\ UNCHANGED << tidbConnector, poolVars >>
  /\ UNCHANGED << httpVars, mainConfig, connVars, userVars, pc, op, arg, pl, conn, idx,
                  results, err, live, out, log >>

\* a faulty guard, which answers with an empty result when there is no
\* connector
notInitialized_Silent(p, name) ==
  /\ pc' = [pc EXCEPT ![p] = "done"]
  /\ op' = [op EXCEPT ![p] = name]
  /\ out' = [out EXCEPT ![p] = Returned(<<>>)]
  /\ log' = [log EXCEPT ![p] = <<>>]
  /\ UNCHANGED << httpVars, serverVars, poolVars, connVars, userVars, arg, pl, conn,
                  idx, results, err, live >>

\* the tool handler, lines 198-203: there is no connector
notInitialized(p, name) ==
  /\ pc' = [pc EXCEPT ![p] = "done"]
  /\ op' = [op EXCEPT ![p] = name]
  /\ out' = [out EXCEPT ![p] = Thrown("TiDB connection not initialized")]
  /\ log' = [log EXCEPT ![p] = <<>>]
  /\ UNCHANGED << httpVars, serverVars, poolVars, connVars, userVars, arg, pl, conn,
                  idx, results, err, live >>

\* the tool calls the client of the server model sends: the tool's name,
\* what it hands to the connector, and what is missing of the tool's first
\* required argument: "none" of it, the "arguments" object, the field
\* ("absent"), or its value, which is "undefined" or "null"
ToolCall(name, args, missing) ==
  [ name |-> name, args |-> args, missing |-> missing ]

Missing == { "arguments", "absent", "undefined", "null" }

ToolCalls ==
  { ToolCall("db_query", t, "none") : t \in SomeQueryTexts("p1") }
  \cup
  { ToolCall("db_query", <<>>, m) : m \in Missing }
  \cup
  { ToolCall("db_execute", OneStmt("INSERT"), m) : m \in {"none", "null"} }
  \cup
  { ToolCall("switch_database", a, "none") : a \in SwitchArgs }
  \cup
  { ToolCall("switch_database", <<Undef, Undef, Undef>>, "undefined") }
  \cup
  { ToolCall(name, <<>>, "none") :
      name \in {"show_databases", "show_tables", "drop_database"} }
  \cup
  { ToolCall("db_create_user", << <<"b">>, <<"p", "'">> >>, m) :
      m \in {"none", "absent"} }
  \cup
  { ToolCall("db_remove_user", << <<"b">> >>, m) : m \in {"none", "arguments"} }

\* validateToolArgs, lines 167-179: the code of the McpError it throws, or
\* "ok" when it returns the arguments
validateToolArgs(request) ==
  IF request.missing = "arguments" THEN "InvalidParams"
  ELSE IF request.missing \in {"absent", "undefined", "null"}
    THEN "InvalidParams"
  ELSE "ok"

\* the catch block of the handler, lines 306-313: whatever was thrown in
\* the try block, the McpErrors of the handler too, leaves the handler
\* as an McpError of the code InternalError
handlerCatch(code) == "InternalError"

\* the handler throws an McpError of the code before it has called the
\* connector (lines 220, 246, 260, 274, 288, 302), and the catch block
\* takes it
toolFailed(p, request, code) ==
  /\ pc' = [pc EXCEPT ![p] = "done"]
  /\ op' = [op EXCEPT ![p] = request.name]
  /\ arg' = [arg EXCEPT ![p] = [ missing |-> request.missing ]]
  /\ out' = [out EXCEPT ![p] = Thrown(handlerCatch(code))]
  /\ log' = [log EXCEPT ![p] = <<>>]
  /\ UNCHANGED << httpVars, serverVars, poolVars, connVars, userVars, pl, conn, idx,
                  results, err, live >>

\* the names of the tools the handler knows, lines 208-300
Tools ==
  { "show_databases", "switch_database", "show_tables", "db_query",
    "db_execute", "db_create_user", "db_remove_user" }

\* the tool handler, lines 197-305, up to the first await of the
\* connector method it calls
CallTool(p, request) ==
  /\ pc[p] = "idle"
  /\ mainPc # "exit"
  /\ IF tidbConnector = "null"
       THEN notInitialized(p, request.name)
     ELSE IF request.name \notin Tools
       THEN toolFailed(p, request, "MethodNotFound")
     ELSE IF validateToolArgs(request) # "ok"
       THEN toolFailed(p, request, validateToolArgs(request))
     ELSE CASE request.name = "show_databases" -> ShowDatabasesCall(p)
            [] request.name = "switch_database" ->
                 SwitchCall(p, request.args[1], request.args[2],
                            request.args[3])
            [] request.name = "show_tables" -> ShowTablesCall(p)
            [] request.name = "db_query" ->
                 QueryCall(p, request.args, Undef)
            [] request.name = "db_execute" ->
                 ExecuteCall(p, request.args)
            [] request.name = "db_create_user" ->
                 CreateUserCall(p, request.args[1], request.args[2])
            [] request.name = "db_remove_user" ->
                 RemoveUserCall(p, request.args[1])

\* the server from its start, with one client that sends a tool call at
\* a time
NextServer ==
  \/ Main
  \/ \E request \in ToolCalls : CallTool("p1", request)
  \/ ExecuteGotConnection("p1")
  \/ ExecuteBegun("p1")
  \/ ExecuteStmtDone("p1")
  \/ ExecuteCommitDone("p1")
  \/ ExecuteRollbackDone("p1")
  \/ QueryDone("p1")
  \/ SwitchEnded("p1")
  \/ SwitchGotConnection("p1")
  \/ SwitchPinged("p1")
  \/ ShowDatabasesDone("p1")
  \/ ShowTablesDone("p1")
  \/ CreateUserLookedUp("p1")
  \/ CreateUserGotConnection("p1")
  \/ CreateUserExecuted("p1")
  \/ RemoveUserLookedUp("p1")
  \/ RemoveUserGotConnection("p1")
  \/ RemoveUserExecuted("p1")
  \/ Return("p1")

SpecServer == InitServer /\ [][NextServer]_vars

(***************************************************************************)
(* The HTTP server, src/src/server-http.ts.  main() (lines 167-268) builds *)
(* one TiDBConnector and the session table transports; every session's     *)
(* McpServer is set up with that connector (lines 23-165, 217-218).  The   *)
(* StreamableHTTPServerTransport is the SDK's: what it answers to a        *)
(* request it is handed is the environment's choice, its calls of          *)
(* sessionIdGenerator, onsessioninitialized and onclose are modelled.      *)
(***************************************************************************)
\* the property names every object inherits from Object.prototype
ObjectPrototype == { "constructor", "__proto__" }

\* the values of the header mcp-session-id (line 195, lines 241 and 252):
\* absent, empty, the id of a session, an id no session has, and a name
\* that Object.prototype defines
Headers == { Undef, "" } \cup Uuids \cup { "no-such-session", "constructor" }

\* the request bodies: an initialize request, a tool call, any other message
Bodies == { "initialize", "tools/call", "notification" }

\* isInitializeRequest(req.body), line 201
isInitializeRequest(body) == body = "initialize"

\* transports[sessionId], lines 198-200, 242-247 and 254-259: the property
\* read on the plain object transports
get(key) ==
  IF key \in Uuids /\ transports[key] # 0
    THEN [ kind |-> "transport", id |-> transports[key] ]
  ELSE IF key \in ObjectPrototype
    THEN [ kind |-> "inherited", id |-> 0 ]
  ELSE [ kind |-> "undefined", id |-> 0 ]

\* the HTTP layer leaves the connector and its callers alone
connectorUnchanged ==
  UNCHANGED << serverVars, userVars, poolVars, connVars, pc, op, arg, pl,
               conn, idx, results, err, live, out, log >>

\* the response record of a request
Response(method, header, body, status, code, thrown, t) ==
  [ method |-> method, header |-> header, body |-> body, status |-> status,
    code |-> code, thrown |-> thrown, transport |-> t ]

\* lines 224-232: res.status(400).json({ error: { code: -32000 } }), and
\* lines 243-244 and 255-256: res.status(400).send(...)
badRequest(method, header, body) ==
  /\ res' = Response(method, header, body, 400,
                     IF method = "POST" THEN -32000 ELSE 0, Undef, 0)
  /\ UNCHANGED << transports, sessionId, transportState >>

\* lines 236, 248 and 260, transport.handleRequest(...) where transport is
\* a value inherited from Object.prototype: it has no handleRequest, the
\* call throws a TypeError and the handler answers nothing of its own
\* (the framework answers 500 or leaves the rejection unhandled)
notAFunction(method, header, body) ==
  /\ res' = Response(method, header, body, 0, 0, "TypeError", 0)
  /\ UNCHANGED << transports, sessionId, transportState >>

\* a faulty transport, whose close leaves the session in the table
handleRequest_KeepsEntry(method, header, body, t) ==
  /\ res' = Response(method, header, body, 200, 0, Undef, t)
  /\ transportState' = [transportState EXCEPT
       ![t] = IF method = "DELETE" THEN "closed" ELSE @]
  /\ UNCHANGED << transports, sessionId >>

\* lines 236, 248 and 260: transport.handleRequest(req, res, ...) on the
\* transport object t of a session.  The transport refuses the request,
\* or takes it; a DELETE it takes closes it, and its onclose (lines
\* 211-215) deletes the session from the table
handleRequest(method, header, body, t) ==
  \/ /\ \E status \in {400, 406} :
          res' = Response(method, header, body, status, -32600, Undef, t)
     /\ UNCHANGED << transports, sessionId, transportState >>
  \/ /\ method # "DELETE"
     /\ body # "initialize"
     /\ res' = Response(method, header, body, 200, 0, Undef, t)
     /\ UNCHANGED << transports, sessionId, transportState >>
  \/ /\ method = "DELETE"
     /\ res' = Response(method, header, body, 200, 0, Undef, t)
     /\ transportState' = [transportState EXCEPT ![t] = "closed"]
     /\ transports' = IF Truthy(sessionId[t])
                        THEN [transports EXCEPT ![sessionId[t]] = 0]
                        ELSE transports
     /\ UNCHANGED sessionId

\* lines 201-221 and 236: a new transport and a new server are created and
\* connected, and the transport is handed the initialize request.  It
\* refuses it, or generates the session id and calls onsessioninitialized
\* (lines 205-207), which stores it in the table.  While the handler
\* awaits server.connect (line 221) the transport is in no table and no
\* other request can reach it
connectNew(header, body) ==
  /\ \E u \in TransportIds : transportState[u] = "none"
  /\ LET t == CHOOSE u \in TransportIds :
                /\ transportState[u] = "none"
                /\ \A v \in TransportIds : transportState[v] = "none" => u <= v
     IN /\ transportState' = [transportState EXCEPT ![t] = "open"]
        /\ \/ /\ \E status \in {400, 406} :
                   res' = Response("POST", header, body, status, -32600, Undef, t)
              /\ UNCHANGED << transports, sessionId >>
           \/ /\ sessionId' = [sessionId EXCEPT ![t] = Uuid(t)]
              /\ transports' = [transports EXCEPT ![Uuid(t)] = t]
              /\ res' = Response("POST", header, body, 200, 0, Undef, t)

\* app.post('/mcp'), lines 194-237, for a body that is not a tool call
Post(header, body) ==
  /\ connectorUnchanged
  /\ body # "tools/call"
  /\ IF Truthy(header) /\ get(header).kind # "undefined"
       THEN IF get(header).kind = "transport"
              THEN handleRequest("POST", header, body, get(header).id)
              ELSE notAFunction("POST", header, body)
     ELSE IF ~Truthy(header) /\ isInitializeRequest(body)
       THEN connectNew(header, body)
     ELSE badRequest("POST", header, body)

\* app.post('/mcp') for a tool call that reaches no transport
PostToolNoSession(header) ==
  /\ connectorUnchanged
  /\ IF Truthy(header) /\ get(header).kind # "undefined"
       THEN /\ get(header).kind = "inherited"
            /\ notAFunction("POST", header, "tools/call")
       ELSE badRequest("POST", header, "tools/call")

\* app.get('/mcp'), lines 240-249, and app.delete('/mcp'), lines 252-261
GetOrDelete(method, header) ==
  /\ connectorUnchanged
  /\ IF ~Truthy(header) \/ get(header).kind = "undefined"
       THEN badRequest(method, header, "none")
     ELSE IF get(header).kind = "transport"
       THEN handleRequest(method, header, "none", get(header).id)
     ELSE notAFunction(method, header, "none")

Get(header) == GetOrDelete("GET", header)

Delete(header) == GetOrDelete("DELETE", header)

\* the caller that runs the tool handlers of the server connected to
\* transport object t
ToolCaller(t) == IF t = 1 THEN "p1" ELSE "p2"

\* app.post('/mcp') with a tool call in the body and the id of a session in
\* the header: the session's transport hands the call to its server, whose
\* tool handler (lines 23-165) runs as caller p
PostTool(header, p) ==
  /\ Truthy(header)
  /\ get(header).kind = "transport"
  /\ p = ToolCaller(get(header).id)

\* the configurations main() of server-http.ts can start from
HttpConfigs ==
  { cfg \in Configs : validateConfig(cfg) = "ok" /\ cfg.port = <<4000>> }

\* main() has built the connector (line 174) and the empty session table
\* (line 191) and listens
InitHttp ==
  /\ tidbConnector = "object"
  /\ mainPc = "connected"
  /\ mainConfig \in HttpConfigs
  /\ config = mainConfig
  /\ pool = 1
  /\ poolState = [k \in PoolIds |-> IF k = 1 THEN "open" ELSE "none"]
  /\ poolOpts = [k \in PoolIds |-> IF k = 1 THEN createPool(mainConfig)
                                             ELSE NoOpts]
  /\ borrowed = {}
  /\ pending = [c \in Conns |-> {}]
  /\ committed = {}
  /\ pc = [p \in Procs |-> "idle"]
  /\ op = [p \in Procs |-> "none"]
  /\ arg = [p \in Procs |-> NoArgs]
  /\ pl = [p \in Procs |-> 0]
  /\ conn = [p \in Procs |-> NoConn]
  /\ idx = [p \in Procs |-> 0]
  /\ results = [p \in Procs |-> <<>>]
  /\ err = [p \in Procs |-> Undef]
  /\ live = [p \in Procs |-> FALSE]
  /\ out = [p \in Procs |-> NoOut]
  /\ log = [p \in Procs |-> <<>>]
  /\ fullUsername = [p \in Procs |-> <<>>]
  /\ users = {}
  /\ NoHttp

\* the requests of the clients; the tool calls are queries
NextHttp ==
  \/ \E header \in Headers : \E body \in Bodies : Post(header, body)
  \/ \E header \in Headers : PostToolNoSession(header)
  \/ \E header \in Headers : Get(header)
  \/ \E header \in Headers : Delete(header)
  \/ \E header \in Headers : \E p \in Procs :
       \E sqlStmt \in SomeQueryTexts("p2") :
         PostTool(header, p) /\ QueryCall(p, sqlStmt, Undef)
  \/ \E p \in Procs : QueryDone(p)
  \/ \E p \in Procs : Return(p)

SpecHttp == InitHttp /\ [][NextHttp]_vars

\* sessions are opened and call tools: the first session switches the
\* database and queries, the others query, execute and show the tables
NextSessions ==
  \/ Post(Undef, "initialize")
  \/ \E header \in Uuids : \E a \in SomeSwitchArgs :
       PostTool(header, "p1") /\ SwitchCall("p1", a[1], a[2], a[3])
  \/ SwitchEnded("p1")
  \/ SwitchGotConnection("p1")
  \/ SwitchPinged("p1")
  \/ \E header \in Uuids : \E p \in Procs :
       \E sqlStmt \in SomeQueryTexts("p2") :
         PostTool(header, p) /\ QueryCall(p, sqlStmt, Undef)
  \/ \E p \in Procs : QueryDone(p)
  \/ \E header \in Uuids :
       PostTool(header, "p2") /\ ExecuteCall("p2", OneStmt("INSERT"))
  \/ ExecuteGotConnection("p2")
  \/ ExecuteBegun("p2")
  \/ ExecuteStmtDone("p2")
  \/ ExecuteCommitDone("p2")
  \/ ExecuteRollbackDone("p2")
  \/ \E header \in Uuids : PostTool(header, "p2") /\ ShowTablesCall("p2")
  \/ ShowTablesDone("p2")
  \/ \E p \in Procs : Return(p)

SpecSessions == InitHttp /\ [][NextSessions]_vars

(***************************************************************************)
(* What the call recorder of a caller shows.                               *)
(***************************************************************************)
\* positions in caller p's log of the calls named name
CallsOf(p, name) == { i \in 1..Len(log[p]) : log[p][i].call = name }

\* caller p's method o has returned or thrown
Completed(p, o) == pc[p] = "done" /\ op[p] = o

\* caller p's execute has returned or thrown after the catch block took
\* the rejection of a statement
StatementFailed(p) == Completed(p, "execute") /\ err[p] = "statement"

(***************************************************************************)
(* Properties of execute.                                                  *)
(***************************************************************************)
\* C1: an execute call that acquired a connection has released it exactly
\* once when it returns or throws, whatever the exit path, so that the
\* connection is not left borrowed
C1_ReleasedExactlyOnce ==
  \A p \in Procs :
    (Completed(p, "execute") /\ conn[p] # NoConn) =>
      /\ Cardinality(CallsOf(p, "release")) = 1
      /\ conn[p] \notin borrowed

\* C2: when a statement fails, the error execute throws is the error of
\* that statement, whether the rollback resolved or rejected; no statement
\* after the failed one was issued and the failed one was issued once
C2_OriginalErrorRaised ==
  \A p \in Procs :
    StatementFailed(p) =>
      /\ out[p] = Thrown("statement")
      /\ Cardinality(CallsOf(p, "rollback")) = 1
      /\ Cardinality(CallsOf(p, "execute")) = idx[p]

\* C3: when the Nth statement (N > 1) fails, the caller gets no outcome
\* record and no connection the current pool can hand out shows a read
\* the effects of statements 1..N-1
C3_NothingVisibleAfterFailure ==
  \A p \in Procs :
    (StatementFailed(p) /\ idx[p] > 1) =>
      /\ out[p].kind = "throw"
      /\ out[p].value = <<>>
      /\ poolState[pool] = "open" =>
           \A c \in FreeConns(pool) : Visible(c) \cap Own(p) = {}

\* the affected-row count the driver reports for stmt, 0 when it reports none
Reported(stmt) ==
  IF ResultHeader(stmt).affectedRows = <<>>
    THEN 0 ELSE ResultHeader(stmt).affectedRows[1]

\* C4: execute issues at most one commit, and only once all K statements
\* have been issued and have succeeded; when it returns it has committed
\* once and returns K outcome records, the i-th with the i-th statement's
\* text and the affected-row count the driver reported for it
C4_CommitOnceAndRecords ==
  \A p \in Procs :
    op[p] = "execute" =>
      LET stmts == statements(arg[p])
          K == Len(stmts)
          commits == CallsOf(p, "commit")
      IN /\ Cardinality(commits) <= 1
         /\ \A i \in commits :
              /\ Cardinality({ j \in CallsOf(p, "execute") : j < i }) = K
              /\ Len(results[p]) = K
         /\ (pc[p] = "done" /\ out[p].kind = "return") =>
              /\ Cardinality(commits) = 1
              /\ Len(out[p].value) = K
              /\ \A i \in 1..K :
                   /\ out[p].value[i].statement = stmts[i]
                   /\ out[p].value[i].affectedRows = Reported(stmts[i])

\* a batch of two or more statements with a counted one has returned
C4_Witness ==
  \E p \in Procs :
    /\ Completed(p, "execute")
    /\ out[p].kind = "return"
    /\ Len(out[p].value) >= 2
    /\ out[p].value[1].affectedRows = 1

\* C5: once a statement has failed, rollback has been issued exactly once
\* and commit never, on the borrowed connection, and this is so when
\* execute throws
C5_RollbackOnceNoCommit ==
  \A p \in Procs :
    (op[p] = "execute" /\ err[p] = "statement") =>
      /\ Cardinality(CallsOf(p, "rollback")) = 1
      /\ \A i \in CallsOf(p, "rollback") : log[p][i].on = conn[p]
      /\ CallsOf(p, "commit") = {}
      /\ pc[p] = "done" => out[p].kind = "throw"

\* the second statement of a batch failed and execute has thrown its error
C5_Witness ==
  \E p \in Procs :
    /\ StatementFailed(p)
    /\ idx[p] = 2
    /\ out[p] = Thrown("statement")

\* caller p is suspended inside a method
InCall(p) == pc[p] \notin {"idle", "done"}

\* C6: every driver call of an execute goes to the one connection it
\* borrowed, which no other call under way holds; beginTransaction is the
\* first of them; the statements are issued in input order, each only
\* after all before it have succeeded
C6_OneConnectionInOrder ==
  \A p \in Procs :
    (op[p] = "execute" /\ conn[p] # NoConn) =>
      LET stmts == statements(arg[p])
          issued == CallsOf(p, "execute")
      IN /\ \A i \in 2..Len(log[p]) : log[p][i].on = conn[p]
         /\ log[p][2].call = "beginTransaction"
         /\ \A i \in issued :
              LET n == Cardinality({ j \in issued : j <= i })
              IN /\ n <= Len(stmts)
                 /\ log[p][i].stmt = stmts[n]
                 /\ Len(results[p]) >= n - 1
         /\ Cardinality(issued) <= Len(results[p]) + 1
         /\ \A q \in Procs \ {p} :
              (InCall(p) /\ InCall(q)) => conn[q] # conn[p]

\* an execute has issued its second statement while another caller's
\* query or execute is under way
C6_Witness ==
  \E p \in Procs : \E q \in Procs \ {p} :
    /\ pc[p] = "ex_stmt"
    /\ Cardinality(CallsOf(p, "execute")) = 2
    /\ pc[q] \in {"q_execute", "ex_getConnection", "ex_begin", "ex_stmt"}

(***************************************************************************)
(* Properties of query.                                                    *)
(***************************************************************************)
\* text t, without the whitespace in front of it and in lower case,
\* starts with select, show, describe, explain or with
StartsReadOnly(t) ==
  \E w \in { <<"s","e","l","e","c","t">>, <<"s","h","o","w">>,
             <<"d","e","s","c","r","i","b","e">>,
             <<"e","x","p","l","a","i","n">>, <<"w","i","t","h">> } :
    \E a \in 0..Len(t) :
      /\ \A i \in 1..a : t[i] \in Whitespace
      /\ a + Len(w) <= Len(t)
      /\ \A i \in 1..Len(w) : LowerOf(t[a + i]) = w[i]

\* C7: a query whose text does not start read-only has thrown the
\* read-only error and issued no call to the pool; one whose text does has
\* issued exactly one call, pool.execute with the text as it was handed over
C7_ReadOnlyGate ==
  \A p \in Procs :
    op[p] = "query" =>
      IF StartsReadOnly(arg[p].sqlStmt)
        THEN /\ Len(log[p]) = 1
             /\ log[p][1].call = "pool.execute"
             /\ log[p][1].sql = arg[p].sqlStmt
        ELSE /\ pc[p] = "done"
             /\ out[p] = Thrown("readOnly")
             /\ log[p] = <<>>

\* a statement with whitespace around it was refused while one in mixed
\* case with whitespace around it has gone to the pool and returned
C7_Witness ==
  \E p \in Procs : \E q \in Procs \ {p} :
    /\ Completed(p, "query")
    /\ arg[p].sqlStmt = <<" ","d","r","o","p"," ">>
    /\ out[p] = Thrown("readOnly")
    /\ Completed(q, "query")
    /\ arg[q].sqlStmt = <<" ","S","e","L","e","C","t"," ","1","\n">>
    /\ out[q].kind = "return"

(***************************************************************************)
(* Properties of switchDatabase.                                           *)
(***************************************************************************)
\* the pool that caller p's switchDatabase found current and ended
OldPool(p) == log[p][1].on[1]

\* C8: a switchDatabase that has created its new pool did so after the
\* end() of the old pool had resolved, so the old pool is closed; one whose
\* end() rejected has created no pool and has thrown
C8_OldPoolClosedFirst ==
  \A p \in Procs :
    op[p] = "switchDatabase" =>
      /\ log[p][1].call = "end"
      /\ \A i \in CallsOf(p, "createPool") :
           /\ i = 2
           /\ poolState[OldPool(p)] = "closed"
           /\ log[p][i].on[1] # OldPool(p)
      /\ (pc[p] = "done" /\ out[p] = Thrown("end")) =>
           /\ CallsOf(p, "createPool") = {}
           /\ pl[p] = OldPool(p)

\* one switchDatabase has returned with its new pool current and the old
\* one closed, and the end() of another one has rejected
C8_Witness ==
  \E p \in Procs : \E q \in Procs \ {p} :
    /\ Completed(p, "switchDatabase")
    /\ out[p].kind = "return"
    /\ pool = pl[p]
    /\ poolState[OldPool(p)] = "closed"
    /\ Completed(q, "switchDatabase")
    /\ out[q] = Thrown("end")

\* C9: at every moment one pool is current, and every pool created so far
\* is the current one or has been ended: no open pool is left that is not
\* the current one
C9_NoDanglingPool ==
  /\ pool \in Created
  /\ \A k \in Created : k = pool \/ poolState[k] \in {"closing", "closed"}

\* a switchDatabase is under way
Switching == \E q \in Procs : op[q] = "switchDatabase" /\ InCall(q)

ProbeFailed(p) ==
  /\ Completed(p, "switchDatabase")
  /\ out[p].kind = "throw"
  /\ CallsOf(p, "createPool") # {}

\* C11: when the probe of a switchDatabase fails, at getConnection or at
\* ping, its error is what the caller gets; the old pool stays closed and
\* is not current again; the current pool is the new one (or one a later
\* switchDatabase installed) and the config is the one it was built from
C11_ProbeFailureKeepsNewTarget ==
  \A p \in Procs :
    ProbeFailed(p) =>
      /\ out[p].error =
           IF CallsOf(p, "ping") = {} THEN "getConnection" ELSE "ping"
      /\ poolState[OldPool(p)] = "closed"
      /\ pool # OldPool(p)
      /\ pool >= pl[p]
      /\ pool = pl[p] => config.database = arg[p].dbName
      /\ poolOpts[pool] = createPool(config)

\* the ping of a probe has failed and the new pool is the current one
C11_Witness ==
  \E p \in Procs :
    /\ ProbeFailed(p)
    /\ out[p] = Thrown("ping")
    /\ pool = pl[p]
    /\ poolState[pool] = "open"

\* the manager is in the state the specification calls Failed: the probe
\* of the switchDatabase that installed the current pool has failed
Failed == \E p \in Procs : ProbeFailed(p) /\ pool = pl[p]

\* C12: while the manager is Failed, a query or an execute that a caller
\* issues is refused: it ends at once and no call goes to the pool
C12_FailedRefusesStatements ==
  [][\A q \in Procs :
       (Failed /\ pc[q] = "idle" /\ op'[q] \in {"query", "execute"})
         => (pc'[q] = "done" /\ log'[q] = <<>>)]_vars

(***************************************************************************)
(* Properties of the configuration.                                        *)
(***************************************************************************)
\* the password and the default database that a connection URI of the
\* model carries
UriPassword(uri) == IF uri = "mysql://u:pw@h:4000/urldb" THEN "pw" ELSE Undef
UriDatabase(uri) == IF uri = "mysql://u:pw@h:4000/urldb" THEN "urldb" ELSE Undef

\* the password a pool built with the options opts logs in with
PoolPassword(opts) ==
  IF opts.uri # Undef THEN UriPassword(opts.uri) ELSE opts.password

\* the default database of a pool built with the options opts
PoolDatabase(opts) ==
  IF opts.uri # Undef THEN UriDatabase(opts.uri) ELSE opts.database

\* caller p's switchDatabase stores its new pool and config in this step
Installs(p) == pc[p] = "sw_end" /\ pc'[p] = "sw_getConnection"

\* C13: the config a switchDatabase stores has the database handed over,
\* the identity handed over or else the one before, and the secret handed
\* over, the empty string too, or else the one before; with the empty
\* secret the new pool logs in without a password
C13_SwitchBuildsConfig ==
  [][\A p \in Procs :
       Installs(p) =>
         /\ config'.database = arg[p].dbName
         /\ config'.username =
              IF arg[p].username \notin {Undef, ""} THEN arg[p].username
                                                   ELSE config.username
         /\ config'.password =
              IF arg[p].password # Undef THEN arg[p].password
                                         ELSE config.password
         /\ arg[p].password = "" => PoolPassword(poolOpts'[pool']) = Undef]_vars

\* C14: once switchDatabase(b) has returned, whatever the initial config
\* was, the current pool has b as its default database, so the statement
\* that follows runs against b
C14_PoolTargetsNewDatabase ==
  \A p \in Procs :
    (Completed(p, "switchDatabase") /\ out[p].kind = "return" /\ pool = pl[p])
      => PoolDatabase(poolOpts[pool]) = arg[p].dbName

C16_NotInitialized ==
  [][\A p \in Procs :
       (tidbConnector = "null" /\ pc[p] = "idle" /\ pc'[p] # "idle")
         => /\ pc'[p] = "done"
            /\ out'[p] = Thrown("TiDB connection not initialized")
            /\ log'[p] = <<>>
            /\ poolVars' = poolVars
            /\ connVars' = connVars]_vars

\* a switch_database call was refused because main() has not built the
\* connector
C16_Witness ==
  \E p \in Procs :
    /\ tidbConnector = "null"
    /\ pc[p] = "done"
    /\ op[p] = "switch_database"
    /\ out[p] = Thrown("TiDB connection not initialized")
    /\ Created = {}

\* config cfg has no connection URI and lacks the address or the identity
LacksTarget(cfg) ==
  /\ cfg.databaseUrl \in {Undef, ""}
  /\ cfg.host \in {Undef, ""} \/ cfg.username \in {Undef, ""}

\* C17: with a config that has no connection URI and lacks the address or
\* the identity, main() ends in exit with a configuration error; no
\* connector and no pool exist at any time
C17_IncompleteConfigRejected ==
  LacksTarget(mainConfig) =>
    /\ tidbConnector = "null"
    /\ Created = {}
    /\ mainPc \in {"start", "exit"}
    /\ validateConfig(mainConfig) \in
         { "Either DATABASE_URL or HOST must be provided",
           "USERNAME is required when not using DATABASE_URL" }

\* main() has ended in exit on a config with an address and no identity
C17_Witness ==
  /\ mainPc = "exit"
  /\ mainConfig.databaseUrl = Undef
  /\ mainConfig.host = "gateway01.tidbcloud.com"
  /\ mainConfig.username = Undef
  /\ mainConfig.port = <<4000>>

\* C18: with a config whose port is given and is not in 1..65535, main()
\* ends in exit before a pool is built; every pool is built from a config
\* whose port, when given, is in 1..65535
C18_PortInRange ==
  /\ (mainConfig.port # <<>> /\ mainConfig.port[1] \notin 1..65535)
       => (mainPc \in {"start", "exit"} /\ Created = {})
  /\ \A k \in Created :
       poolOpts[k].port = <<>> \/ poolOpts[k].port[1] \in 1..65535

(***************************************************************************)
(* Properties of the connector's error handling.                           *)
(***************************************************************************)
\* the calls caller p's method issues in a step
Appended(p) ==
  LET from == IF /\ Len(log'[p]) >= Len(log[p])
                 /\ SubSeq(log'[p], 1, Len(log[p])) = log[p]
                THEN Len(log[p]) + 1 ELSE 1
  IN  { log'[p][i].call : i \in from..Len(log'[p]) }

\* a driver call of the method caller p is in has failed: the catch block
\* of execute took its error, or the method threw it
DriverCallFailed(p) ==
  \/ err[p] # Undef
  \/ /\ out[p].kind = "throw"
     /\ out[p].error \notin {"readOnly", "Username cannot be empty"}

\* no call of the method caller p is in was issued a second time: the
\* statements of a batch were issued one each and in their order, every
\* other call at most once
IssuedAtMostOnce(p) ==
  /\ \A name \in { log[p][i].call : i \in 1..Len(log[p]) } \ {"execute"} :
       Cardinality(CallsOf(p, name)) <= 1
  /\ IF op[p] = "execute"
       THEN /\ Cardinality(CallsOf(p, "execute")) <= Len(statements(arg[p]))
            /\ \A i \in CallsOf(p, "execute") :
                 log[p][i].stmt =
                   statements(arg[p])[Cardinality({ j \in CallsOf(p, "execute") : j <= i })]
       ELSE Cardinality(CallsOf(p, "execute")) <= 1

\* C19: the connector never retries: within one operation (query, execute,
\* switchDatabase, createUser, removeUser, showDatabases, showTables) every
\* driver call is issued at most once, and once a driver call of the
\* operation has failed the operation issues nothing more than the one
\* rollback of execute and the release of its connection
C19_NoRetries ==
  [][ \A p \in Procs :
        /\ IssuedAtMostOnce(p)'
        /\ DriverCallFailed(p)' => Appended(p) \subseteq {"rollback", "release"}
    ]_vars

\* a removeUser whose DROP USER statement was rejected after the lookup
\* of the current user went through
C19_Witness ==
  /\ Completed("p1", "removeUser")
  /\ out["p1"] = Thrown("execute")
  /\ CallsOf("p1", "pool.execute") # {}

(***************************************************************************)
(* Properties of createUser and removeUser.                                *)
(***************************************************************************)
\* caller p is in createUser or removeUser and has issued its DDL
\* statement
IssuedDDL(p) ==
  op[p] \in {"createUser", "removeUser"} /\ CallsOf(p, "execute") # {}

\* the DDL statement of caller p names the user name
ActsOn(p, name) ==
  \A i \in CallsOf(p, "execute") :
    log[p][i].sql = ddl(op[p], name, arg[p])

\* caller p has asked the database for the current user
LookedUp(p) == CallsOf(p, "pool.execute") # {}

\* the configured host contains "tidbcloud.com" and the requested name
\* contains no "."
WantsPrefix(p) ==
  /\ Truthy(config.host)
  /\ \E i \in 1..(Len(Chars(config.host)) - 12) :
       SubSeq(Chars(config.host), i, i + 12) =
         << "t","i","d","b","c","l","o","u","d",".","c","o","m" >>
  /\ \A i \in 1..Len(arg[p].username) : arg[p].username[i] # "."

\* pre is the part of the string s before its first ".", or all of s when
\* there is none
BeforeFirstDot(pre, s) ==
  /\ Len(pre) <= Len(s)
  /\ pre = SubSeq(s, 1, Len(pre))
  /\ \A i \in 1..Len(pre) : pre[i] # "."
  /\ Len(pre) < Len(s) => s[Len(pre) + 1] = "."

\* the name caller p's DDL statement is to act on, rest being what is
\* used for the requested name: rest behind the prefix of the user that
\* was current on the pool the lookup went to, or rest alone
NamesFor(p, rest) ==
  IF WantsPrefix(p)
    THEN LET currentUser == CURRENT_USER(log[p][1].on[1])
         IN  { SubSeq(currentUser, 1, n) \o << "." >> \o rest :
                 n \in { m \in 0..Len(currentUser) :
                          BeforeFirstDot(SubSeq(currentUser, 1, m), currentUser) } }
    ELSE { rest }

\* C20: createUser and removeUser act on prefix + "." + requested name,
\* prefix being the part of the current session user before its first ".",
\* exactly when the configured host contains "tidbcloud.com" and the
\* requested name contains no "."; otherwise they look up no current user
\* and act on the requested name; createUser returns the name its DDL
\* statement used
C20_PrefixedName ==
  \A p \in Procs :
    /\ IssuedDDL(p) =>
         /\ LookedUp(p) <=> WantsPrefix(p)
         /\ \E name \in NamesFor(p, arg[p].username) : ActsOn(p, name)
    /\ (Completed(p, "createUser") /\ out[p].kind = "return") =>
         ActsOn(p, out[p].value)

\* the same with the requested name taken without its leading and
\* trailing whitespace wherever it is used
PrefixedNameAllTrimmed ==
  \A p \in Procs :
    /\ IssuedDDL(p) =>
         /\ LookedUp(p) <=> WantsPrefix(p)
         /\ \E name \in NamesFor(p, trim(arg[p].username)) : ActsOn(p, name)
    /\ (Completed(p, "createUser") /\ out[p].kind = "return") =>
         ActsOn(p, out[p].value)

\* what lines 167-172 do: the name behind a prefix is the requested name
\* as it was handed over, the name without a prefix is the requested name
\* without its leading and trailing whitespace
PrefixedNameAsCoded ==
  \A p \in Procs :
    /\ IssuedDDL(p) =>
         /\ LookedUp(p) <=> WantsPrefix(p)
         /\ \E name \in NamesFor(p, IF WantsPrefix(p) THEN arg[p].username
                                                     ELSE trim(arg[p].username)) :
              ActsOn(p, name)
    /\ (Completed(p, "createUser") /\ out[p].kind = "return") =>
         ActsOn(p, out[p].value)

\* caller p's createUser or removeUser is at its lookup of the current
\* user, or has thrown the error of the lookup
AtLookup(p) ==
  /\ op[p] \in {"createUser", "removeUser"}
  /\ \/ pc[p] = "us_currentUsername"
     \/ pc[p] = "done" /\ out[p] = Thrown("currentUsername")

\* C21: the lookup of the current user in createUser and removeUser is a
\* read that comes before the DDL statement: the steps that issue it and
\* that take its failure change neither the connector nor the database,
\* and when it fails the caller gets its error and no CREATE USER or DROP
\* USER statement, nor any other call, has been issued
C21_LookupIsPureRead ==
  [][ \A p \in Procs :
        /\ (pc'[p] # pc[p] /\ AtLookup(p)') =>
             /\ UNCHANGED << poolVars, connVars, users >>
             /\ Len(log'[p]) = 1
             /\ log'[p][1].call = "pool.execute"
             /\ log'[p][1].stmt = "SELECT CURRENT_USER()"
        /\ \* a lookup that went to a pool which was ended can only fail
           (pc[p] = "us_currentUsername" /\ pc'[p] # pc[p]
              /\ poolState[pl[p]] # "open") => AtLookup(p)'
    ]_vars

\* a removeUser whose lookup failed
C21_Witness ==
  /\ Completed("p1", "removeUser")
  /\ out["p1"] = Thrown("currentUsername")
  /\ CallsOf("p1", "execute") = {}

\* the place in the statement text s of the quote that closes the string
\* literal read from place i on, as the database reads it: a backslash
\* takes the character behind it into the literal, the first quote
\* without one ends the literal; 0 when the text ends inside the literal
RECURSIVE literalEnd(_, _)
literalEnd(s, i) ==
  IF i > Len(s) THEN 0
  ELSE IF s[i] = "\\" THEN literalEnd(s, i + 2)
  ELSE IF s[i] = "'" THEN i
  ELSE literalEnd(s, i + 1)

\* the value of the string literal with the characters s between its
\* quotes
RECURSIVE literalValue(_)
literalValue(s) ==
  IF s = <<>> THEN <<>>
  ELSE IF Head(s) = "\\" /\ Len(s) >= 2
    THEN << s[2] >> \o literalValue(Tail(Tail(s)))
    ELSE << Head(s) >> \o literalValue(Tail(s))

\* the statement text s has at place i a string literal of the value v
\* that ends at place e
LiteralAt(s, i, e, v) ==
  /\ i < Len(s)
  /\ s[i] = "'"
  /\ e = literalEnd(s, i + 1)
  /\ literalValue(SubSeq(s, i + 1, e - 1)) = v

\* the database reads the statement text s as the DDL statement of method
\* for the user name, and for the password of args: nothing of the name
\* or of the password is read as SQL
ReadsAsDDL(s, method, name, args) ==
  IF method = "createUser"
    THEN /\ s # <<>> /\ s[1] = "CREATE USER "
         /\ \E e1 \in 1..Len(s) : \E e2 \in 1..Len(s) :
              /\ LiteralAt(s, 2, e1, name)
              /\ e1 < Len(s) /\ s[e1 + 1] = " IDENTIFIED BY "
              /\ LiteralAt(s, e1 + 2, e2, args.password)
              /\ e2 = Len(s)
    ELSE /\ s # <<>> /\ s[1] = "DROP USER "
         /\ \E e1 \in 1..Len(s) :
              /\ LiteralAt(s, 2, e1, name)
              /\ e1 = Len(s)

\* the CREATE USER and DROP USER statements in the log of caller p
DDLCalls(p) ==
  { i \in 1..Len(log[p]) : log[p][i].stmt \in {"CREATE USER", "DROP USER"} }

\* C22: in every CREATE USER and DROP USER statement that createUser and
\* removeUser issue, the user name and the password stand as escaped
\* values: the database reads them as the string literals of that name and
\* that password, and no character handed over by the caller is read as
\* SQL
C22_OnlyEscapedValues ==
  \A p \in Procs : \A i \in DDLCalls(p) :
    ReadsAsDDL(log[p][i].sql, op[p], fullUsername[p], arg[p])

(***************************************************************************)
(* Properties of the stored config.                                        *)
(***************************************************************************)
\* the fields of a config that switchDatabase takes over as they are
KeptFields == { "databaseUrl", "host", "port", "tls", "tlsCaPath" }

\* C23: switchDatabase stores a new config and leaves the config object it
\* found, which is the one main() handed to the constructor, as it was: the
\* new config has the host, port, tls, tlsCaPath and databaseUrl of the
\* old one, so that it differs at most in database, username and
\* password; and in every state the stored config is the one the current
\* pool was built from
C23_ConfigReplacedWholesale ==
  [][ /\ \A p \in Procs :
           Installs(p) =>
             /\ \A f \in KeptFields : config'[f] = config[f]
             /\ mainConfig' = mainConfig
      /\ ((\A p \in Procs : ~Installs(p)) /\ tidbConnector = "object") =>
           config' = config
      /\ pool' # 0 => poolOpts'[pool'] = createPool(config')
    ]_vars

\* a switchDatabase on a connector built from a URI has stored a config
\* with another database, username and password
C23_Witness ==
  /\ mainPc = "connected"
  /\ Truthy(mainConfig.databaseUrl)
  /\ mainConfig.port = <<>>
  /\ pool > 1
  /\ config.database # mainConfig.database
  /\ config.username # mainConfig.username
  /\ config.password # mainConfig.password

(***************************************************************************)
(* Properties of the tool handler's errors.                                *)
(***************************************************************************)
\* the handler of caller p has left a call with a tool-level error: the
\* tool is not known, or a required argument of it is missing
ToolLevelError(p) ==
  /\ pc[p] = "done"
  /\ DOMAIN arg[p] = {"missing"}

\* C24: a tool-level error of the stdio server reaches the client with its
\* code: the call of a tool that is not one of the seven fails with
\* MethodNotFound, the call with a required argument that is missing,
\* undefined or null fails with InvalidParams, and neither has called the
\* connector
C24_ToolErrorsKeepCode ==
  \A p \in Procs :
    ToolLevelError(p) =>
      /\ out[p] = Thrown(IF op[p] \notin Tools THEN "MethodNotFound"
                                               ELSE "InvalidParams")
      /\ log[p] = <<>>

(***************************************************************************)
(* Properties of the HTTP server's routing.                                *)
(***************************************************************************)
\* the header names a session of the table
InTable(header) == header \in Uuids /\ transports[header] # 0

\* the request answered in this step
Answered == res' # res

\* C25: a POST whose session id is in the session table is handled by that
\* session's transport; a POST without session id whose body is an
\* initialize request is handled by a transport created for it; every
\* other POST is answered 400 with the JSON-RPC error -32000, handled by no
\* transport, and creates neither a transport nor a session; a GET or
\* DELETE whose session id is missing or not in the table is answered 400
\* and reaches no transport
C25_PostRouting ==
  [][ Answered =>
        LET r == res'
            refused == /\ r.status = 400
                       /\ r.thrown = Undef
                       /\ r.transport = 0
                       /\ UNCHANGED << transports, sessionId, transportState >>
        IN IF InTable(r.header)
             THEN r.transport = transports[r.header]
           ELSE IF r.method = "POST" /\ ~Truthy(r.header)
                     /\ isInitializeRequest(r.body)
             THEN /\ r.transport \in TransportIds
                  /\ transportState[r.transport] = "none"
                  /\ transportState'[r.transport] = "open"
           ELSE IF r.method = "POST"
             THEN refused /\ r.code = -32000
           ELSE refused
    ]_vars

\* the session ids of the transports that have been closed
ClosedSessions ==
  { sessionId[t] : t \in { u \in TransportIds : transportState[u] = "closed" } }

\* C29: every key of the session table is the sessionId of the transport
\* stored under it; an entry is added only in the step that initializes
\* its session and is removed in the step that closes its transport; a
\* request that carries the id of a closed session is answered 400 and
\* reaches no transport
C29_SessionTable ==
  [][ /\ \A k \in Uuids :
           /\ transports'[k] # 0 =>
                /\ sessionId'[transports'[k]] = k
                /\ transportState'[transports'[k]] = "open"
           /\ (transports[k] = 0 /\ transports'[k] # 0) =>
                /\ sessionId[transports'[k]] = Undef
                /\ res'.body = "initialize" /\ res'.status = 200
                /\ res'.transport = transports'[k]
           /\ (transports[k] # 0 /\ transports'[k] = 0) =>
                /\ transportState[transports[k]] = "open"
                /\ transportState'[transports[k]] = "closed"
      /\ \A t \in TransportIds :
           (transportState[t] = "open" /\ transportState'[t] = "closed") =>
             \A k \in Uuids : transports'[k] # t
      /\ (Answered /\ res'.header \in ClosedSessions) =>
           /\ res'.status = 400
           /\ res'.transport = 0
      /\ \A p \in Procs :
           (pc[p] = "idle" /\ pc'[p] # "idle") =>
             \E k \in Uuids : /\ transports[k] # 0
                              /\ transportState[transports[k]] = "open"
                              /\ ToolCaller(transports[k]) = p
    ]_vars

\* a request with the id of a closed session has been answered 400
C29_Witness ==
  /\ res.header \in ClosedSessions
  /\ res.status = 400
  /\ res.transport = 0
  /\ \E k \in Uuids : transports[k] # 0

(***************************************************************************)
(* Properties of the sessions' tool calls.                                 *)
(***************************************************************************)
\* the user a pool logs in as
UriUser(uri) == IF uri = "mysql://u:pw@h:4000/urldb" THEN "u" ELSE Undef
PoolUser(opts) == IF opts.uri # Undef THEN UriUser(opts.uri) ELSE opts.user

\* the switch_database call of caller p's session has returned, and no
\* other switch has replaced its pool
SwitchedBy(p) ==
  /\ op[p] = "switchDatabase"
  /\ pc[p] \in {"done", "idle"}
  /\ out[p].kind = "return"
  /\ pool = pl[p]

\* in this step the session of caller q starts a show_tables, db_query or
\* db_execute call
StartsStatement(q) ==
  /\ pc[q] = "idle"
  /\ pc'[q] # "idle"
  /\ op'[q] \in {"showTables", "query", "execute"}

\* C28: after a switch_database call of one session has returned, every
\* show_tables, db_query and db_execute call another session starts runs
\* on the pool that switch installed, against the database and with the
\* user name the switch named
C28_SwitchReachesOtherSessions ==
  [][ \A p \in Procs : \A q \in Procs \ {p} :
        (SwitchedBy(p) /\ StartsStatement(q)) =>
          /\ pl'[q] = pl[p]
          /\ PoolDatabase(poolOpts[pl'[q]]) = arg[p].dbName
          /\ Truthy(arg[p].username) =>
               PoolUser(poolOpts[pl'[q]]) = arg[p].username
    ]_vars

\* the other sessions' calls run on the pool the switch installed, whatever
\* that pool connects to
SessionsShareThePool ==
  [][ \A p \in Procs : \A q \in Procs \ {p} :
        (SwitchedBy(p) /\ StartsStatement(q)) => pl'[q] = pl[p]
    ]_vars

\* another session starts a statement after a switch has returned
SharedPoolUsed ==
  \E p \in Procs : \E q \in Procs \ {p} :
    /\ SwitchedBy(p)
    /\ pc[q] # "idle"
    /\ op[q] \in {"showTables", "query", "execute"}
    /\ pl[q] = pl[p]

(***************************************************************************)
(* Properties of a failed commit.                                          *)
(***************************************************************************)
\* caller p's execute has ended after every statement of its batch
\* succeeded and the commit was rejected
CommitFailed(p) ==
  /\ Completed(p, "execute")
  /\ err[p] = "commit"
  /\ Len(results[p]) = Len(statements(arg[p]))

\* C26: when every statement of a batch succeeds and the commit fails,
\* execute calls rollback once, on the connection of the commit and after
\* it, then releases that connection, throws an error and returns no
\* outcome record
C26_CommitFailureRollsBack ==
  \A p \in Procs :
    (Completed(p, "execute") /\ err[p] = "commit") =>
      /\ CommitFailed(p)
      /\ Cardinality(CallsOf(p, "commit")) = 1
      /\ Cardinality(CallsOf(p, "rollback")) = 1
      /\ Cardinality(CallsOf(p, "release")) = 1
      /\ \A c \in CallsOf(p, "commit") : \A r \in CallsOf(p, "rollback") :
           /\ r = c + 1
           /\ log[p][c].on = conn[p]
           /\ log[p][r].on = conn[p]
           /\ \A f \in CallsOf(p, "release") :
                /\ f = r + 1
                /\ f = Len(log[p])
                /\ log[p][f].on = conn[p]
      /\ out[p].kind = "throw"
      /\ out[p].value = <<>>

\* a batch of two statements has ended with a rejected commit
C26_Witness ==
  \E p \in Procs :
    /\ CommitFailed(p)
    /\ Len(results[p]) = MaxBatch
    /\ out[p] = Thrown("commit")

(***************************************************************************)
(* Properties of the probe of switchDatabase.                              *)
(***************************************************************************)
\* C27: when switchDatabase has ended, whether it returned or threw, the
\* connection it borrowed for its ping has been released to its pool
C27_ProbeAlwaysReleased ==
  \A p \in Procs :
    Completed(p, "switchDatabase") =>
      \A i \in CallsOf(p, "ping") :
        \E j \in CallsOf(p, "release") :
          j > i /\ log[p][j].on = log[p][i].on

\* a switchDatabase whose ping failed has ended and its probe connection
\* is still borrowed from the current pool
ProbeLeaked ==
  \E p \in Procs :
    /\ Completed(p, "switchDatabase")
    /\ out[p] = Thrown("ping")
    /\ pool = pl[p]
    /\ conn[p] \in borrowed
    /\ conn[p][1] = pool

(***************************************************************************)
(* Properties of close.                                                    *)
(***************************************************************************)
\* close() has completed on the pool the connector holds: only close()
\* leaves the connector with a pool whose end() has resolved
Closed == pool # 0 /\ poolState[pool] = "closed"

\* in this step caller p gets the outcome of a query or execute it called
\* on the closed connector
EndsOnClosed(p) ==
  /\ Closed
  /\ pl[p] = pool
  /\ op[p] \in {"query", "execute"}
  /\ pc[p] # "done"
  /\ pc'[p] = "done"

\* C30: once close() has completed, the connector keeps its closed pool,
\* no step creates or installs an open pool, and every query and execute
\* on it throws
C30_ClosedIsTerminal ==
  [][ Closed =>
        /\ pool' = pool
        /\ poolState' = poolState
        /\ \A p \in Procs : EndsOnClosed(p) => out'[p].kind = "throw"
    ]_vars

\* switchDatabase, called on the closed connector, has installed an open
\* pool and returned
ReopenedAfterClose ==
  \E p \in Procs :
    /\ Completed(p, "switchDatabase")
    /\ out[p].kind = "return"
    /\ poolState[log[p][1].on[1]] = "closed"
    /\ pool = pl[p]
    /\ poolState[pool] = "open"

=============================================================================
